---- MODULE Spec2Model ----
(***************************************************************************)
(* Herald: the release decision engine.                                    *)
(*   version   - Version, ParseVersion, BumpVersion, String, Compare,      *)
(*               CreatePrereleaseVersion                                   *)
(*   commits   - ParseCommits, CalculateBumpType, the filter, the groups   *)
(*               and their order                                           *)
(*   changelog - GenerateRelease, FormatRelease, PrependRelease            *)
(*   config    - LoadConfig, Validate                                      *)
(*   git       - GetLatestTag, GetCommitsSinceTag, CreateTag, IsClean      *)
(*   cli       - executeRelease                                            *)
(* A Go string is a sequence of one-character strings; a changelog text is *)
(* the sequence of its lines (strings.Split(text, "\n")), a line being a   *)
(* sequence of words whose concatenation is the line.                      *)
(***************************************************************************)
EXTENDS Integers, Sequences, FiniteSets, TLC

VARIABLES
    heap,            \* the Version structs allocated so far, by address 1..Len(heap)
    currentVersion,  \* *Version held by the caller (an address, 0 = nil)
    newVersion,      \* *Version returned by the last version operation
    lastBump,        \* bumpType argument of the last version operation, -1 = none yet
    versionStr,      \* argument of ParseVersion
    parsed,          \* result of ParseVersion: [err, v]
    cfg,             \* config.Commits.Types: commit type -> CommitType
    commits,         \* []*ConventionalCommit handed to CalculateBumpType
    gitCommits,      \* []*git.Commit handed to ParseCommits
    generated,       \* *Release returned by GenerateRelease
    sortedRuns,      \* what SortCommitsByType returned, one entry per FormatRelease call
    formatted,       \* what the last FormatRelease call returned
    compared,        \* Compare of every two Version structs, by address
    created,         \* arguments of the last CreatePrereleaseVersion call
    bumpType,        \* result of CalculateBumpType, -1 = not computed yet
    pc,              \* position of the running command
    file,            \* the changelog file: [exists, text]
    existingContent, \* last PrependRelease that wrote: what ReadExistingChangelog returned
    newRelease,      \* last PrependRelease that wrote: what FormatRelease returned
    releases,        \* the sections FormatRelease rendered and PrependRelease wrote, oldest first
    origin,          \* the changelog file before the first PrependRelease
    err,             \* what the last PrependRelease returned: "", "read" or "write"
    configFile,      \* the .heraldrc on disk: [exists, readable, wellFormed, types]
    repo,            \* the git repository: [log, tags, clean, clock]
    run              \* the executeRelease call in progress: its flags and locals

vars == <<heap, currentVersion, newVersion, lastBump, versionStr, parsed,
          cfg, commits, bumpType, pc, file, existingContent, newRelease,
          releases, origin, err, gitCommits, generated, sortedRuns, formatted,
          compared, created, configFile, repo, run>>

versionVars == <<heap, currentVersion, newVersion, lastBump>>
parseVars == <<versionStr, parsed>>
commitVars == <<cfg, commits, bumpType, gitCommits>>
changelogVars == <<file, existingContent, newRelease, releases, origin, err>>
releaseVars == <<generated, sortedRuns, formatted>>
orderVars == <<compared, created>>
runVars == <<configFile, repo, run>>

-----------------------------------------------------------------------------
(* Bounds of the model. *)

\* largest major, minor or patch number of an input version
MaxNum == 1
\* number of Version structs that may be allocated in one run
MaxHeap == 3
\* longest commit list
MaxCommits == 3
\* number of PrependRelease calls in one run
MaxReleases == 3

-----------------------------------------------------------------------------
(* Go strings. *)

Digits == <<"0", "1", "2", "3", "4", "5", "6", "7", "8", "9">>

IsDigit(c) == \E i \in 1..10 : Digits[i] = c

DigitValue(c) == (CHOOSE i \in 1..10 : Digits[i] = c) - 1

Letters ==
    {"a", "b", "c", "d", "e", "f", "g", "h", "i", "j", "k", "l", "m",
     "n", "o", "p", "q", "r", "s", "t", "u", "v", "w", "x", "y", "z",
     "A", "B", "C", "D", "E", "F", "G", "H", "I", "J", "K", "L", "M",
     "N", "O", "P", "Q", "R", "S", "T", "U", "V", "W", "X", "Y", "Z"}

\* fmt.Sprintf("%d", n) for n >= 0
RECURSIVE Itoa(_)
Itoa(n) == IF n < 10 THEN <<Digits[n + 1]>>
           ELSE Itoa(n \div 10) \o <<Digits[(n % 10) + 1]>>

\* index of the first occurrence of character c in s, 0 if there is none
IndexOf(s, c) ==
    IF \E i \in 1..Len(s) : s[i] = c
    THEN CHOOSE i \in 1..Len(s) : s[i] = c /\ \A j \in 1..(i - 1) : s[j] # c
    ELSE 0

\* strings.Split(s, c)[0]
SplitFirst(s, c) == IF IndexOf(s, c) = 0 THEN s ELSE SubSeq(s, 1, IndexOf(s, c) - 1)

\* strings.Split(s, c), c one character
RECURSIVE Split(_, _)
Split(s, c) ==
    IF IndexOf(s, c) = 0 THEN <<s>>
    ELSE <<SubSeq(s, 1, IndexOf(s, c) - 1)>> \o Split(SubSeq(s, IndexOf(s, c) + 1, Len(s)), c)

\* strings.HasPrefix(s, "v")
HasPrefixV(s) == Len(s) > 0 /\ s[1] = "v"

-----------------------------------------------------------------------------
(* golang.org/x/mod/semver, as ParseVersion uses it. *)

\* length of the longest prefix of s made of digits
RECURSIVE DigitRun(_)
DigitRun(s) == IF s = <<>> \/ ~IsDigit(s[1]) THEN 0 ELSE 1 + DigitRun(Tail(s))

\* semver.parseInt: [ok, t, rest]; no leading zero
SemverParseInt(s) ==
    LET n == DigitRun(s) IN
    IF n = 0 \/ (s[1] = "0" /\ n # 1)
    THEN [ok |-> FALSE, t |-> <<>>, rest |-> s]
    ELSE [ok |-> TRUE, t |-> SubSeq(s, 1, n), rest |-> SubSeq(s, n + 1, Len(s))]

IsIdentChar(c) == IsDigit(c) \/ c \in Letters \/ c = "-"

\* semver.isBadNum: all digits, more than one of them, leading zero
IsBadNum(s) == DigitRun(s) = Len(s) /\ Len(s) > 1 /\ s[1] = "0"

\* the dot-separated identifiers of a prerelease or build are well formed
IdentsOk(s, numeric) ==
    \A k \in 1..Len(Split(s, ".")) :
        LET id == Split(s, ".")[k] IN
        /\ id # <<>>
        /\ \A i \in 1..Len(id) : IsIdentChar(id[i])
        /\ numeric => ~IsBadNum(id)

\* semver.parsePrerelease on a string that starts with "-": up to the first "+"
SemverParsePrerelease(s) ==
    LET cut == IF IndexOf(s, "+") = 0 THEN Len(s) ELSE IndexOf(s, "+") - 1
        t == SubSeq(s, 1, cut)
    IN  IF IdentsOk(Tail(t), TRUE)
        THEN [ok |-> TRUE, t |-> t, rest |-> SubSeq(s, cut + 1, Len(s))]
        ELSE [ok |-> FALSE, t |-> <<>>, rest |-> s]

\* semver.parseBuild on a string that starts with "+": to the end
SemverParseBuild(s) ==
    IF IdentsOk(Tail(s), FALSE)
    THEN [ok |-> TRUE, t |-> s, rest |-> <<>>]
    ELSE [ok |-> FALSE, t |-> <<>>, rest |-> s]

NotSemver == [ok |-> FALSE, prerelease |-> <<>>, build |-> <<>>]

\* semver.parse: vMAJOR[.MINOR[.PATCH[-PRERELEASE][+BUILD]]]
SemverParse(v) ==
    IF v = <<>> \/ v[1] # "v" THEN NotSemver
    ELSE
    LET ma == SemverParseInt(Tail(v)) IN
    IF ~ma.ok THEN NotSemver
    ELSE IF ma.rest = <<>> THEN [ok |-> TRUE, prerelease |-> <<>>, build |-> <<>>]
    ELSE IF ma.rest[1] # "." THEN NotSemver
    ELSE
    LET mi == SemverParseInt(Tail(ma.rest)) IN
    IF ~mi.ok THEN NotSemver
    ELSE IF mi.rest = <<>> THEN [ok |-> TRUE, prerelease |-> <<>>, build |-> <<>>]
    ELSE IF mi.rest[1] # "." THEN NotSemver
    ELSE
    LET pa == SemverParseInt(Tail(mi.rest)) IN
    IF ~pa.ok THEN NotSemver
    ELSE
    LET pre == IF pa.rest # <<>> /\ pa.rest[1] = "-"
               THEN SemverParsePrerelease(pa.rest)
               ELSE [ok |-> TRUE, t |-> <<>>, rest |-> pa.rest]
    IN
    IF ~pre.ok THEN NotSemver
    ELSE
    LET bld == IF pre.rest # <<>> /\ pre.rest[1] = "+"
               THEN SemverParseBuild(pre.rest)
               ELSE [ok |-> TRUE, t |-> <<>>, rest |-> pre.rest]
    IN
    IF ~bld.ok \/ bld.rest # <<>> THEN NotSemver
    ELSE [ok |-> TRUE, prerelease |-> pre.t, build |-> bld.t]

SemverIsValid(v) == SemverParse(v).ok

SemverPrerelease(v) == SemverParse(v).prerelease

SemverBuild(v) == SemverParse(v).build

\* the major, minor and patch strings semver.parse yields for a valid v, the
\* shorthands having minor and patch "0"
SemverNumbers(v) ==
    LET ma == SemverParseInt(Tail(v))
        mi == IF ma.rest = <<>> THEN [t |-> <<"0">>, rest |-> <<>>]
              ELSE SemverParseInt(Tail(ma.rest))
        pa == IF mi.rest = <<>> THEN [t |-> <<"0">>, rest |-> <<>>]
              ELSE SemverParseInt(Tail(mi.rest))
    IN  <<ma.t, mi.t, pa.t>>

\* the characters of an identifier in byte order
ByteOrder ==
    <<"-", "0", "1", "2", "3", "4", "5", "6", "7", "8", "9",
      "A", "B", "C", "D", "E", "F", "G", "H", "I", "J", "K", "L", "M",
      "N", "O", "P", "Q", "R", "S", "T", "U", "V", "W", "X", "Y", "Z",
      "a", "b", "c", "d", "e", "f", "g", "h", "i", "j", "k", "l", "m",
      "n", "o", "p", "q", "r", "s", "t", "u", "v", "w", "x", "y", "z">>

ByteRank(c) == CHOOSE i \in 1..Len(ByteOrder) : ByteOrder[i] = c

\* x < y on Go strings of identifier characters
RECURSIVE StringLess(_, _)
StringLess(x, y) ==
    IF y = <<>> THEN FALSE
    ELSE IF x = <<>> THEN TRUE
    ELSE IF x[1] # y[1] THEN ByteRank(x[1]) < ByteRank(y[1])
    ELSE StringLess(Tail(x), Tail(y))

\* semver.compareInt
SemverCompareInt(x, y) ==
    IF x = y THEN 0
    ELSE IF Len(x) < Len(y) THEN -1
    ELSE IF Len(x) > Len(y) THEN 1
    ELSE IF StringLess(x, y) THEN -1 ELSE 1

\* semver.isNum
SemverIsNum(id) == DigitRun(id) = Len(id)

\* the loop of semver.comparePrerelease over the identifiers from the i-th on
RECURSIVE ComparePrereleaseLoop(_, _, _)
ComparePrereleaseLoop(xs, ys, i) ==
    IF i > Len(xs) THEN -1
    ELSE IF i > Len(ys) THEN 1
    ELSE IF xs[i] = ys[i] THEN ComparePrereleaseLoop(xs, ys, i + 1)
    ELSE IF SemverIsNum(xs[i]) # SemverIsNum(ys[i])
         THEN (IF SemverIsNum(xs[i]) THEN -1 ELSE 1)
    ELSE IF SemverIsNum(xs[i]) /\ Len(xs[i]) < Len(ys[i]) THEN -1
    ELSE IF SemverIsNum(xs[i]) /\ Len(xs[i]) > Len(ys[i]) THEN 1
    ELSE IF StringLess(xs[i], ys[i]) THEN -1 ELSE 1

\* semver.comparePrerelease
SemverComparePrerelease(x, y) ==
    IF x = y THEN 0
    ELSE IF x = <<>> THEN 1
    ELSE IF y = <<>> THEN -1
    ELSE ComparePrereleaseLoop(Split(Tail(x), "."), Split(Tail(y), "."), 1)

\* semver.Compare
SemverCompare(v, w) ==
    IF ~SemverIsValid(v) /\ ~SemverIsValid(w) THEN 0
    ELSE IF ~SemverIsValid(v) THEN -1
    ELSE IF ~SemverIsValid(w) THEN 1
    ELSE
    LET pv == SemverNumbers(v)
        pw == SemverNumbers(w)
    IN  IF SemverCompareInt(pv[1], pw[1]) # 0 THEN SemverCompareInt(pv[1], pw[1])
        ELSE IF SemverCompareInt(pv[2], pw[2]) # 0 THEN SemverCompareInt(pv[2], pw[2])
        ELSE IF SemverCompareInt(pv[3], pw[3]) # 0 THEN SemverCompareInt(pv[3], pw[3])
        ELSE SemverComparePrerelease(SemverPrerelease(v), SemverPrerelease(w))

-----------------------------------------------------------------------------
(* version: Version, ParseVersion, String, BumpVersion. *)

\* commits.BumpType
None == 0
Patch == 1
Minor == 2
Major == 3

BumpTypes == {None, Patch, Minor, Major}

\* fmt.Sscanf(part, "%d", &n) with the fallback to 0 when it fails
RECURSIVE DigitsValue(_)
DigitsValue(s) == IF s = <<>> THEN 0
                  ELSE 10 * DigitsValue(SubSeq(s, 1, Len(s) - 1)) + DigitValue(s[Len(s)])

ScanInt(part) ==
    LET n == DigitRun(part) IN
    IF n = 0 THEN 0 ELSE DigitsValue(SubSeq(part, 1, n))

\* Version.WithoutPrefix
WithoutPrefix(v) ==
    Itoa(v.Major) \o <<".">> \o Itoa(v.Minor) \o <<".">> \o Itoa(v.Patch)
        \o v.Prerelease \o v.Build

\* Version.String
String(v) == v.Prefix \o WithoutPrefix(v)

NoVersion == [Major |-> 0, Minor |-> 0, Patch |-> 0, Prerelease |-> <<>>,
              Build |-> <<>>, Prefix |-> <<>>, Raw |-> <<>>]

\* the struct ParseVersion builds from an input the semver check accepted
VersionFields(s, prefix, vstr, prerelease, build) ==
    LET core1 == IF prerelease # <<>> THEN SplitFirst(vstr, "-") ELSE vstr
        coreVersion == IF build # <<>> THEN SplitFirst(core1, "+") ELSE core1
        parts == Split(coreVersion, ".")
    IN  [Major |-> IF Len(parts) >= 1 THEN ScanInt(parts[1]) ELSE 0,
         Minor |-> IF Len(parts) >= 2 THEN ScanInt(parts[2]) ELSE 0,
         Patch |-> IF Len(parts) >= 3 THEN ScanInt(parts[3]) ELSE 0,
         Prerelease |-> prerelease,
         Build |-> build,
         Prefix |-> prefix,
         Raw |-> s]

\* ParsedVersion asking semver about versionStr itself, not "v" + versionStr
ParsedVersionUncanonical(s, prefix, vstr) ==
    VersionFields(s, prefix, vstr, SemverPrerelease(vstr), SemverBuild(vstr))

\* Manager.ParseVersion after the validity check
ParsedVersion(s, prefix, vstr) ==
    VersionFields(s, prefix, vstr, SemverPrerelease(<<"v">> \o vstr),
                  SemverBuild(<<"v">> \o vstr))

\* Manager.ParseVersion: [err, v]
ParseVersion(s) ==
    IF s = <<>> THEN [err |-> "empty", v |-> NoVersion]
    ELSE
    LET prefix == IF HasPrefixV(s) THEN <<"v">> ELSE <<>>
        vstr == IF HasPrefixV(s) THEN Tail(s) ELSE s
    IN  IF ~SemverIsValid(<<"v">> \o vstr)
        THEN [err |-> "invalid", v |-> NoVersion]
        ELSE [err |-> "", v |-> ParsedVersion(s, prefix, vstr)]

\* a Version that clears prerelease and build, and takes the bump
BumpedFields(v, bt) ==
    [Major |-> IF bt = Major THEN v.Major + 1 ELSE v.Major,
     Minor |-> IF bt = Major THEN 0 ELSE IF bt = Minor THEN v.Minor + 1 ELSE v.Minor,
     Patch |-> IF bt \in {Major, Minor} THEN 0
               ELSE IF bt = Patch THEN v.Patch + 1 ELSE v.Patch,
     Prerelease |-> <<>>,
     Build |-> <<>>,
     Prefix |-> v.Prefix,
     Raw |-> <<>>]

WithRaw(v) == [v EXCEPT !.Raw = String(v)]

\* BumpVersion with the switch arms of Major and Minor not resetting the lower parts
BumpVersionNoReset(h, p, bt) ==
    LET v == h[p]
        n == [Major |-> IF bt = Major THEN v.Major + 1 ELSE v.Major,
              Minor |-> IF bt = Minor THEN v.Minor + 1 ELSE v.Minor,
              Patch |-> IF bt = Patch THEN v.Patch + 1 ELSE v.Patch,
              Prerelease |-> <<>>, Build |-> <<>>, Prefix |-> v.Prefix, Raw |-> <<>>]
    IN  [heap |-> Append(h, WithRaw(n)), ret |-> Len(h) + 1]

\* BumpVersion whose patch bump only drops prerelease and build
BumpVersionFinalize(h, p, bt) ==
    [heap |-> Append(h, WithRaw(BumpedFields(h[p], IF bt = Patch THEN None ELSE bt))),
     ret |-> Len(h) + 1]

\* Manager.BumpVersion on the struct at address p: the heap after the call and
\* the address returned
BumpVersion(h, p, bt) ==
    [heap |-> Append(h, WithRaw(BumpedFields(h[p], bt))), ret |-> Len(h) + 1]

\* CalculateNextVersion without the guard on commits.None
CalculateNextVersionNoGuard(h, p, bt) == BumpVersion(h, p, bt)

\* Manager.CalculateNextVersion
CalculateNextVersion(h, p, bt) ==
    IF bt = None THEN [heap |-> h, ret |-> p] ELSE BumpVersion(h, p, bt)

\* Compare that reads major, minor and patch only
CompareCore(v, other) ==
    SemverCompare(<<"v">> \o Itoa(v.Major) \o <<".">> \o Itoa(v.Minor)
                      \o <<".">> \o Itoa(v.Patch),
                  <<"v">> \o Itoa(other.Major) \o <<".">> \o Itoa(other.Minor)
                      \o <<".">> \o Itoa(other.Patch))

\* Version.Compare
Compare(v, other) ==
    SemverCompare(<<"v">> \o WithoutPrefix(v), <<"v">> \o WithoutPrefix(other))

\* Version.IsGreaterThan
IsGreaterThan(v, other) == Compare(v, other) > 0

\* the prerelease string CreatePrereleaseVersion formats
PrereleaseOf(prereleaseType, iteration) ==
    IF iteration > 0
    THEN <<"-">> \o prereleaseType \o <<".">> \o Itoa(iteration)
    ELSE <<"-">> \o prereleaseType

\* CreatePrereleaseVersion that writes into the base version
CreatePrereleaseVersionInPlace(h, p, prereleaseType, iteration) ==
    [heap |-> [h EXCEPT ![p] = WithRaw([h[p] EXCEPT
                  !.Prerelease = PrereleaseOf(prereleaseType, iteration)])],
     ret |-> p]

\* Manager.CreatePrereleaseVersion on the struct at address p: the heap after
\* the call and the address returned
CreatePrereleaseVersion(h, p, prereleaseType, iteration) ==
    [heap |-> Append(h, WithRaw([Major |-> h[p].Major,
                                 Minor |-> h[p].Minor,
                                 Patch |-> h[p].Patch,
                                 Prerelease |-> PrereleaseOf(prereleaseType, iteration),
                                 Build |-> h[p].Build,
                                 Prefix |-> h[p].Prefix,
                                 Raw |-> <<>>])),
     ret |-> Len(h) + 1]

-----------------------------------------------------------------------------
(* config: the commit types and the changelog switch. *)

\* config.DefaultConfig().Commits.Types
DefaultTypes ==
    ("feat" :> [Title |-> "Features", Semver |-> "minor"]) @@
    ("fix" :> [Title |-> "Bug Fixes", Semver |-> "patch"]) @@
    ("docs" :> [Title |-> "Documentation", Semver |-> "none"]) @@
    ("style" :> [Title |-> "Styles", Semver |-> "none"]) @@
    ("refactor" :> [Title |-> "Code Refactoring", Semver |-> "none"]) @@
    ("test" :> [Title |-> "Tests", Semver |-> "none"]) @@
    ("chore" :> [Title |-> "Chores", Semver |-> "none"])

\* config.DefaultConfig(): the fields the engine reads
DefaultConfig ==
    [Types |-> DefaultTypes,
     IncludeAll |-> FALSE,
     BreakingChangeKeywords |->
        <<<<"B", "R", "E", "A", "K", "I", "N", "G", " ", "C", "H", "A", "N", "G", "E">>,
          <<"B", "R", "E", "A", "K", "I", "N", "G", "-", "C", "H", "A", "N", "G", "E">>>>]

\* a .heraldrc that gives docs the level patch (the README's custom example)
DocsPatchConfig ==
    [DefaultConfig EXCEPT !.Types["docs"].Semver = "patch"]

\* a .heraldrc that gives feat the level none
FeatNoneConfig ==
    [DefaultConfig EXCEPT !.Types["feat"].Semver = "none"]

Configs == {DefaultConfig, DocsPatchConfig, FeatNoneConfig}

\* the Config before LoadConfig has returned one
NoConfig == [Types |-> <<>>, IncludeAll |-> FALSE, BreakingChangeKeywords |-> <<>>]

\* config.LoadConfig on the file at configFile: a missing file gives the
\* defaults, an unreadable or malformed one an error; yaml.Unmarshal decodes
\* into DefaultConfig(), so a type of the file replaces the default of its
\* name and the other defaults stay. Validate is not called
LoadConfig(f) ==
    IF ~f.exists THEN [err |-> "", config |-> DefaultConfig]
    ELSE IF ~f.readable THEN [err |-> "read", config |-> NoConfig]
    ELSE IF ~f.wellFormed THEN [err |-> "parse", config |-> NoConfig]
    ELSE [err |-> "", config |-> [DefaultConfig EXCEPT !.Types = f.types @@ DefaultTypes]]

\* strings.ToLower on the semver levels the model writes
ToLower(level) ==
    CASE level = "MINOR" -> "minor"
      [] level = "Patch" -> "patch"
      [] OTHER -> level

\* Config.Validate on the commit types: "" for nil, else the error
Validate(c) ==
    IF DOMAIN c.Types = {} THEN "commits.types cannot be empty"
    ELSE IF \E t \in DOMAIN c.Types : c.Types[t].Title = ""
         THEN "commit type must have a title"
    ELSE IF \E t \in DOMAIN c.Types :
               ToLower(c.Types[t].Semver) \notin {"major", "minor", "patch", "none"}
         THEN "commit type has invalid semver level"
    ELSE ""

\* version.ParseBumpType on a semver level that Validate accepted
LevelOf(semver) ==
    CASE semver = "major" -> Major
      [] semver = "minor" -> Minor
      [] semver = "patch" -> Patch
      [] OTHER -> None

-----------------------------------------------------------------------------
(* commits: ConventionalCommit and CalculateBumpType. *)

\* a ConventionalCommit
Commit(type, scope, description, breaking, details, hash) ==
    [Type |-> type, Scope |-> scope, Description |-> description,
     IsBreakingChange |-> breaking, BreakingChanges |-> details, Hash |-> hash]

\* the loop of CalculateBumpType from commit i on, bt being bumpType so far
RECURSIVE BumpLoop(_, _, _)
BumpLoop(cs, i, bt) ==
    IF i > Len(cs) THEN bt
    ELSE IF cs[i].IsBreakingChange THEN Major
    ELSE LET b1 == IF cs[i].Type = "feat" /\ bt < Minor THEN Minor ELSE bt
             b2 == IF cs[i].Type = "fix" /\ b1 < Patch THEN Patch ELSE b1
         IN  BumpLoop(cs, i + 1, b2)

\* the loop without the test of IsBreakingChange
RECURSIVE BumpLoopNoBreaking(_, _, _)
BumpLoopNoBreaking(cs, i, bt) ==
    IF i > Len(cs) THEN bt
    ELSE LET b1 == IF cs[i].Type = "feat" /\ bt < Minor THEN Minor ELSE bt
             b2 == IF cs[i].Type = "fix" /\ b1 < Patch THEN Patch ELSE b1
         IN  BumpLoopNoBreaking(cs, i + 1, b2)

\* CalculateBumpType that skips the breaking-change test
CalculateBumpTypeNoBreaking(parserConfig, cs) == BumpLoopNoBreaking(cs, 1, None)

\* CalculateBumpType that reads the last commit only
CalculateBumpTypeLast(parserConfig, cs) ==
    IF cs = <<>> THEN None ELSE BumpLoop(<<cs[Len(cs)]>>, 1, None)

\* Parser.CalculateBumpType; the parser's config is not read
CalculateBumpType(parserConfig, cs) == BumpLoop(cs, 1, None)

-----------------------------------------------------------------------------
(* commits: ParseCommit on a git.Commit [Hash, Subject, Body]. *)

\* the characters the class \w of the pattern matches
WordChars ==
    {"a", "b", "c", "d", "e", "f", "g", "h", "i", "j", "k", "l", "m",
     "n", "o", "p", "q", "r", "s", "t", "u", "v", "w", "x", "y", "z",
     "A", "B", "C", "D", "E", "F", "G", "H", "I", "J", "K", "L", "M",
     "N", "O", "P", "Q", "R", "S", "T", "U", "V", "W", "X", "Y", "Z",
     "0", "1", "2", "3", "4", "5", "6", "7", "8", "9", "_"}

\* the Go string as one value
RECURSIVE StringOf(_)
StringOf(s) == IF s = <<>> THEN "" ELSE s[1] \o StringOf(Tail(s))

\* strings.Contains(s, sub)
Contains(s, sub) ==
    \E i \in 1..(Len(s) - Len(sub) + 1) : SubSeq(s, i, i + Len(sub) - 1) = sub

\* strings.Index(s, sub) + 1 when s contains sub
Index(s, sub) ==
    CHOOSE i \in 1..(Len(s) - Len(sub) + 1) :
        /\ SubSeq(s, i, i + Len(sub) - 1) = sub
        /\ \A j \in 1..(i - 1) : SubSeq(s, j, j + Len(sub) - 1) # sub

\* strings.SplitN(s, sep, 2)[1] when s contains sep
AfterFirst(s, sep) == SubSeq(s, Index(s, sep) + Len(sep), Len(s))

\* the white space strings.TrimSpace removes
IsSpace(c) == c \in {" ", "\t", "\n", "\r"}

RECURSIVE TrimLeft(_)
TrimLeft(s) == IF s # <<>> /\ IsSpace(s[1]) THEN TrimLeft(Tail(s)) ELSE s

RECURSIVE TrimRight(_)
TrimRight(s) ==
    IF s # <<>> /\ IsSpace(s[Len(s)]) THEN TrimRight(SubSeq(s, 1, Len(s) - 1)) ELSE s

\* strings.TrimSpace
TrimSpace(s) == TrimRight(TrimLeft(s))

\* length of the longest prefix of s made of \w characters
RECURSIVE WordRun(_)
WordRun(s) == IF s = <<>> \/ s[1] \notin WordChars THEN 0 ELSE 1 + WordRun(Tail(s))

\* FindStringSubmatch for a pattern that allows ! before the colon
FindStringSubmatchBang(subject) ==
    LET n == WordRun(subject)
        rest == SubSeq(subject, n + 1, Len(subject))
        close == IndexOf(rest, ")")
        hasScope == rest # <<>> /\ rest[1] = "(" /\ close > 2
        scope == IF hasScope THEN SubSeq(rest, 2, close - 1) ELSE <<>>
        after == IF hasScope THEN SubSeq(rest, close + 1, Len(rest)) ELSE rest
        tail == IF after # <<>> /\ after[1] = "!" THEN Tail(after) ELSE after
        description == SubSeq(tail, 3, Len(tail))
    IN  IF /\ n > 0
           /\ Len(tail) >= 3 /\ tail[1] = ":" /\ tail[2] = " "
           /\ IndexOf(description, "\n") = 0
        THEN <<subject, SubSeq(subject, 1, n), scope, description>>
        ELSE <<>>

\* regex.FindStringSubmatch(subject) for ^(\w+)(?:\(([^)]+)\))?: (.+)$ :
\* <<whole, type, scope, description>> on a match, <<>> on none
FindStringSubmatch(subject) ==
    LET n == WordRun(subject)
        rest == SubSeq(subject, n + 1, Len(subject))
        close == IndexOf(rest, ")")
        hasScope == rest # <<>> /\ rest[1] = "(" /\ close > 2
        scope == IF hasScope THEN SubSeq(rest, 2, close - 1) ELSE <<>>
        tail == IF hasScope THEN SubSeq(rest, close + 1, Len(rest)) ELSE rest
        description == SubSeq(tail, 3, Len(tail))
    IN  IF /\ n > 0
           /\ Len(tail) >= 3 /\ tail[1] = ":" /\ tail[2] = " "
           /\ IndexOf(description, "\n") = 0
        THEN <<subject, SubSeq(subject, 1, n), scope, description>>
        ELSE <<>>

\* commit.Subject + "\n" + commit.Body
FullMessage(commit) == commit.Subject \o <<"\n">> \o commit.Body

\* hasBreakingChange that reads the subject only
hasBreakingChangeSubjectOnly(c, commit) == Contains(commit.Subject, <<"!", ":">>)

\* Parser.hasBreakingChange
hasBreakingChange(c, commit) ==
    \/ Contains(commit.Subject, <<"!", ":">>)
    \/ \E k \in 1..Len(c.BreakingChangeKeywords) :
          Contains(FullMessage(commit), c.BreakingChangeKeywords[k])

\* extractBreakingChanges: the description a line yields for a keyword it holds
DescriptionAfter(line, keyword) ==
    LET description == TrimSpace(AfterFirst(line, keyword))
    IN  IF description # <<>> /\ description[1] = ":"
        THEN TrimSpace(Tail(description))
        ELSE description

\* extractBreakingChanges: the inner loop over the lines, for one keyword
RECURSIVE ExtractLines(_, _, _)
ExtractLines(lines, i, keyword) ==
    IF i > Len(lines) THEN <<>>
    ELSE (IF Contains(lines[i], keyword) /\ DescriptionAfter(lines[i], keyword) # <<>>
          THEN <<StringOf(DescriptionAfter(lines[i], keyword))>>
          ELSE <<>>)
         \o ExtractLines(lines, i + 1, keyword)

\* extractBreakingChanges: the outer loop over the keywords
RECURSIVE ExtractKeywords(_, _, _)
ExtractKeywords(keywords, k, commit) ==
    IF k > Len(keywords) THEN <<>>
    ELSE (IF Contains(FullMessage(commit), keywords[k])
          THEN ExtractLines(Split(FullMessage(commit), "\n"), 1, keywords[k])
          ELSE <<>>)
         \o ExtractKeywords(keywords, k + 1, commit)

\* extractBreakingChanges that reads the first keyword only
extractBreakingChangesFirstKeyword(c, commit) ==
    ExtractKeywords(SubSeq(c.BreakingChangeKeywords, 1, 1), 1, commit)

\* Parser.extractBreakingChanges
extractBreakingChanges(c, commit) ==
    ExtractKeywords(c.BreakingChangeKeywords, 1, commit)

\* ParseCommit that keeps the text before the colon as the type of a subject
\* the pattern does not match
ParseCommitNoFallback(c, commit) ==
    LET matches == FindStringSubmatch(commit.Subject)
    IN  Commit(IF Len(matches) # 4 THEN StringOf(SplitFirst(commit.Subject, ":"))
               ELSE StringOf(matches[2]),
               IF Len(matches) # 4 THEN "" ELSE StringOf(matches[3]),
               IF Len(matches) # 4 THEN StringOf(commit.Subject)
               ELSE StringOf(matches[4]),
               hasBreakingChange(c, commit),
               extractBreakingChanges(c, commit),
               commit.Hash)

\* Parser.ParseCommit; the error it returns is always nil
ParseCommit(c, commit) ==
    LET matches == FindStringSubmatch(commit.Subject)
    IN  Commit(IF Len(matches) # 4 THEN "other" ELSE StringOf(matches[2]),
               IF Len(matches) # 4 THEN "" ELSE StringOf(matches[3]),
               IF Len(matches) # 4 THEN StringOf(commit.Subject)
               ELSE StringOf(matches[4]),
               hasBreakingChange(c, commit),
               extractBreakingChanges(c, commit),
               commit.Hash)

-----------------------------------------------------------------------------
(* commits: what the changelog generator uses. *)

\* FilterCommitsForChangelog that keeps every commit
FilterCommitsKeepAll(c, cs) == cs

\* Parser.FilterCommitsForChangelog
FilterCommitsForChangelog(c, cs) ==
    SelectSeq(cs, LAMBDA commit :
        \/ c.IncludeAll
        \/ commit.Type \in {"feat", "fix"}
        \/ commit.Type \in {"docs", "style", "refactor", "test", "chore"}
             /\ commit.IsBreakingChange
        \/ commit.Type \notin {"feat", "fix", "docs", "style", "refactor", "test", "chore"})

\* GroupCommitsByType that always makes a group for feat
GroupCommitsWithFeat(cs) ==
    [t \in {cs[i].Type : i \in 1..Len(cs)} \cup {"feat"} |->
        SelectSeq(cs, LAMBDA commit : commit.Type = t)]

\* Parser.GroupCommitsByType: a map from the types present to their commits
GroupCommitsByType(cs) ==
    [t \in {cs[i].Type : i \in 1..Len(cs)} |->
        SelectSeq(cs, LAMBDA commit : commit.Type = t)]

\* GetBreakingChanges that stops at the first breaking commit
GetBreakingChangesFirst(cs) ==
    LET breaking == SelectSeq(cs, LAMBDA commit : commit.IsBreakingChange)
    IN  IF breaking = <<>> THEN <<>> ELSE <<Head(breaking)>>

\* Parser.GetBreakingChanges
GetBreakingChanges(cs) == SelectSeq(cs, LAMBDA commit : commit.IsBreakingChange)

\* the priority slice of SortCommitsByType
Priority == <<"feat", "fix", "docs", "style", "refactor", "test", "chore">>

\* the sequences that hold every element of set S once
Orderings(S) == {o \in [1..Cardinality(S) -> S] : \A x \in S : \E i \in DOMAIN o : o[i] = x}

\* Parser.SortCommitsByType: the present priority types in order, then the
\* other keys in the order the map iteration yields them, which Go leaves open
SortCommitsByType(groups) ==
    LET present == SelectSeq(Priority, LAMBDA t : t \in DOMAIN groups)
        others == DOMAIN groups \ {Priority[i] : i \in 1..Len(Priority)}
    IN  {present \o o : o \in Orderings(others)}

\* strings.Title on the type names the model uses
TitleCase(w) ==
    CASE w = "other" -> "Other"
      [] w = "perf" -> "Perf"
      [] OTHER -> w

\* Parser.GetCommitTypeTitle
GetCommitTypeTitle(c, commitType) ==
    IF commitType \in DOMAIN c.Types THEN c.Types[commitType].Title
    ELSE TitleCase(commitType)

-----------------------------------------------------------------------------
(* Texts: a text is strings.Split(text, "\n"), a line a sequence of words. *)

\* the string ""
EmptyText == << <<>> >>

\* a string without a newline
Str(words) == <<words>>

\* a + b
Cat(a, b) == SubSeq(a, 1, Len(a) - 1) \o <<a[Len(a)] \o b[1]>> \o Tail(b)

\* "\n"
Newline == << <<>>, <<>> >>

\* words that hold the marker "# Changelog"
MarkerWords == {"# Changelog", "# Changelog archive", "restore # Changelog title"}

\* words that begin with "# Changelog"
HeaderWords == {"# Changelog", "# Changelog archive"}

\* words that begin with "## "
H2Words == {"## ["}

\* words that hold "Semantic Versioning"
SemverWords ==
    {"and this project adheres to [Semantic Versioning](https://semver.org/spec/v2.0.0.html).",
     "adopt Semantic Versioning"}

\* words made of white space
SpaceWords == {" ", "  "}

\* strings.Contains(line, sub), W the words that hold sub
LineContains(line, W) == \E i \in 1..Len(line) : line[i] \in W

\* strings.Contains(text, "# Changelog")
ContainsMarker(text) == \E k \in 1..Len(text) : LineContains(text[k], MarkerWords)

\* strings.HasPrefix(line, "## ")
HasPrefixH2(line) == line # <<>> /\ line[1] \in H2Words

\* strings.TrimSpace(line) == ""
IsBlank(line) == \A i \in 1..Len(line) : line[i] \in SpaceWords

-----------------------------------------------------------------------------
(* changelog: GenerateRelease, FormatRelease, PrependRelease. *)

\* Generator.GenerateRelease, date being time.Now() formatted
GenerateRelease(c, ver, date, conventionalCommits) ==
    [Version |-> ver,
     Date |-> date,
     Commits |-> FilterCommitsForChangelog(c, conventionalCommits),
     GroupedCommits |->
        GroupCommitsByType(FilterCommitsForChangelog(c, conventionalCommits)),
     BreakingChanges |-> GetBreakingChanges(conventionalCommits)]

\* FormatRelease: the lines of one commit of the breaking changes section
BreakingEntry(commit) ==
    LET RECURSIVE Details(_)
        Details(i) ==
            IF i > Len(commit.BreakingChanges) THEN EmptyText
            ELSE Cat(IF commit.BreakingChanges[i] # ""
                     THEN Cat(Str(<<"  ", commit.BreakingChanges[i]>>), Newline)
                     ELSE EmptyText,
                     Details(i + 1))
    IN  Cat(Cat(Cat(Str(<<"* ", commit.Description>>),
                    IF commit.Scope # "" THEN Str(<<" (**", commit.Scope, "**)">>)
                    ELSE EmptyText),
                Newline),
            Details(1))

\* FormatRelease: the bullet of one commit of a type section
Bullet(commit) ==
    Cat(Cat(Cat(Cat(Str(<<"* ">>),
                    IF commit.Scope # "" THEN Str(<<"**", commit.Scope, ":** ">>)
                    ELSE EmptyText),
                Str(<<commit.Description>>)),
            IF Len(commit.Hash) >= 7
            THEN Str(<<" ([">> \o SubSeq(commit.Hash, 1, 7) \o <<"])">>)
            ELSE EmptyText),
        Newline)

\* the concatenation of F(x) over the elements of a sequence
RECURSIVE CatAll(_, _, _)
CatAll(F(_), xs, i) == IF i > Len(xs) THEN EmptyText ELSE Cat(F(xs[i]), CatAll(F, xs, i + 1))

\* FormatRelease: the section of one commit type
TypeSection(c, release, commitType) ==
    IF Len(release.GroupedCommits[commitType]) = 0 THEN EmptyText
    ELSE Cat(Cat(Cat(Str(<<"### ", GetCommitTypeTitle(c, commitType)>>), Cat(Newline, Newline)),
                 CatAll(Bullet, release.GroupedCommits[commitType], 1)),
             Newline)

\* Generator.FormatRelease, sortedTypes being what SortCommitsByType returned
FormatRelease(c, release, sortedTypes) ==
    LET heading == Cat(Str(<<"## [">> \o String(release.Version) \o <<"]">>),
                       Cat(Str(<<" - ", release.Date>>), Cat(Newline, Newline)))
        breaking == IF Len(release.BreakingChanges) > 0
                    THEN Cat(Cat(Cat(Str(<<"### ⚠ BREAKING CHANGES">>), Cat(Newline, Newline)),
                                 CatAll(BreakingEntry, release.BreakingChanges, 1)),
                             Newline)
                    ELSE EmptyText
        Section(t) == TypeSection(c, release, t)
    IN  Cat(Cat(heading, breaking), CatAll(Section, sortedTypes, 1))

\* the header PrependRelease writes
HeaderText ==
    Cat(Cat(Cat(Str(<<"# Changelog">>), Cat(Newline, Newline)),
            Cat(Str(<<"All notable changes to this project will be documented in this file.">>),
                Cat(Newline, Newline))),
        Cat(Cat(Str(<<"The format is based on [Keep a Changelog](https://keepachangelog.com/en/1.0.0/),">>),
                Newline),
            Cat(Str(<<"and this project adheres to [Semantic Versioning](https://semver.org/spec/v2.0.0.html).">>),
                Cat(Newline, Newline))))

\* PrependRelease: the loop that looks for the end of the header, from line i
\* (counted from 0); the value of contentStartIndex after the loop
RECURSIVE ScanHeader(_, _, _)
ScanHeader(lines, i, headerEndFound) ==
    IF i >= Len(lines) THEN 0
    ELSE IF headerEndFound /\ ~IsBlank(lines[i + 1]) THEN i
    ELSE IF HasPrefixH2(lines[i + 1]) THEN i
    ELSE ScanHeader(lines, i + 1,
                    headerEndFound \/ LineContains(lines[i + 1], SemverWords))

\* PrependRelease that writes the header and the release but not the old text
NewContentDropsExisting(existing, rendered) == Cat(HeaderText, rendered)

\* PrependRelease: the content it hands to WriteChangelog
NewContent(existing, rendered) ==
    LET head == IF existing = EmptyText \/ ~ContainsMarker(existing)
                THEN HeaderText ELSE EmptyText
        contentStartIndex == ScanHeader(existing, 0, FALSE)
        rest == IF existing = EmptyText THEN EmptyText
                ELSE IF ContainsMarker(existing)
                THEN IF contentStartIndex > 0
                     THEN SubSeq(existing, contentStartIndex + 1, Len(existing))
                     ELSE EmptyText
                ELSE existing
    IN  Cat(Cat(head, rendered), rest)

\* ReadExistingChangelog that reports a missing file as a read failure
ReadExistingChangelogStrict(f, readFails) ==
    IF ~f.exists \/ readFails THEN [err |-> "read", content |-> EmptyText]
    ELSE [err |-> "", content |-> f.text]

\* Generator.ReadExistingChangelog: [err, content]
ReadExistingChangelog(f, readFails) ==
    IF ~f.exists THEN [err |-> "", content |-> EmptyText]
    ELSE IF readFails THEN [err |-> "read", content |-> EmptyText]
    ELSE [err |-> "", content |-> f.text]

-----------------------------------------------------------------------------
(* Version strings the model feeds to ParseVersion. *)

\* v1.2.3-rc.1+build5
ExampleText == <<"v", "1", ".", "2", ".", "3", "-", "r", "c", ".", "1",
                 "+", "b", "u", "i", "l", "d", "5">>

Prefixes == {<<>>, <<"v">>}

Prereleases == {<<>>, <<"-", "r", "c", ".", "1">>, <<"-", "a", "-", "1">>}

Builds == {<<>>, <<"+", "b", "u", "i", "l", "d", "5">>, <<"+", "b", "-", "1">>}

\* [v]MAJOR.MINOR.PATCH[-prerelease][+build] over the numbers of nums
FullVersionTexts(nums) ==
    {p \o Itoa(a) \o <<".">> \o Itoa(b) \o <<".">> \o Itoa(c) \o pre \o bld :
        p \in Prefixes, a \in nums, b \in nums, c \in nums,
        pre \in Prereleases, bld \in Builds}

\* numerals of one and of two digits
ParseNums == 0..MaxNum \cup {2, 3, 10, 12}

\* inputs that are not a full major.minor.patch version
OtherTexts ==
    {<<>>, <<"v">>, <<"1">>, <<"v", "1">>, <<"1", ".", "2">>, <<"v", "1", ".", "2">>,
     <<"1", ".", "2", ".", "3", ".", "4">>, <<"0", "1", ".", "2", ".", "3">>,
     <<"1", ".", "2", ".", "3", "-">>, <<"1", ".", "2", ".", "3", "-", "0", "1">>,
     <<"1", ".", "2", ".", "3", "+">>, <<"v", "v", "1", ".", "2", ".", "3">>,
     <<"1", ".", "x", ".", "3">>, <<"1", ".", ".", "3">>, <<"x">>}

VersionInputs == FullVersionTexts(ParseNums) \cup OtherTexts

\* the Versions a run starts from: parsed from a tag or from version.initial
InitialVersions == {ParseVersion(s).v : s \in FullVersionTexts(0..MaxNum)}

-----------------------------------------------------------------------------
(* Variables a specification does not use keep these values. *)

VersionIdle == heap = <<>> /\ currentVersion = 0 /\ newVersion = 0 /\ lastBump = -1

ParseIdle == versionStr = <<>> /\ parsed = [err |-> "unset", v |-> NoVersion]

CommitIdle ==
    cfg = DefaultConfig /\ commits = <<>> /\ bumpType = -1 /\ gitCommits = <<>>

ChangelogIdle ==
    /\ file = [exists |-> FALSE, text |-> <<>>]
    /\ existingContent = <<>>
    /\ newRelease = <<>>
    /\ releases = <<>>
    /\ origin = [exists |-> FALSE, text |-> <<>>]
    /\ err = ""

\* no release generated yet
NoRelease ==
    [Version |-> NoVersion, Date |-> "", Commits |-> <<>>,
     GroupedCommits |-> GroupCommitsByType(<<>>), BreakingChanges |-> <<>>]

ReleaseIdle == generated = NoRelease /\ sortedRuns = <<>> /\ formatted = EmptyText

\* no CreatePrereleaseVersion call yet
NotCreated == [prereleaseType |-> <<>>, iteration |-> 0, called |-> FALSE]

OrderIdle == compared = <<>> /\ created = NotCreated

\* no .heraldrc in the working directory
NoConfigFile == [exists |-> FALSE, readable |-> FALSE, wellFormed |-> FALSE, types |-> <<>>]

\* no repository opened
NoRepository == [log |-> <<>>, tags |-> <<>>, clean |-> TRUE, clock |-> 0]

\* no executeRelease call made
NoRun == [dryRun |-> FALSE, called |-> FALSE]

RunIdle == configFile = NoConfigFile /\ repo = NoRepository /\ run = NoRun

-----------------------------------------------------------------------------
(* SpecParse: ParseVersion applied to one input. *)

InitParse ==
    /\ versionStr \in VersionInputs
    /\ parsed = [err |-> "unset", v |-> NoVersion]
    /\ pc = "start"
    /\ VersionIdle /\ CommitIdle /\ ChangelogIdle /\ ReleaseIdle /\ OrderIdle /\ RunIdle

DoParseVersion ==
    /\ pc = "start"
    /\ parsed' = ParseVersion(versionStr)
    /\ pc' = "done"
    /\ UNCHANGED <<versionStr, versionVars, commitVars, changelogVars, releaseVars, orderVars, runVars>>

NextParse == DoParseVersion

SpecParse == InitParse /\ [][NextParse]_vars

-----------------------------------------------------------------------------
(* SpecVersion: BumpVersion applied to the caller's current version. *)

InitVersion ==
    /\ \E v \in InitialVersions : heap = <<v>>
    /\ currentVersion = 1
    /\ newVersion = 0
    /\ lastBump = -1
    /\ pc = "idle"
    /\ ParseIdle /\ CommitIdle /\ ChangelogIdle /\ ReleaseIdle /\ OrderIdle /\ RunIdle

DoBumpVersion(bt) ==
    /\ Len(heap) < MaxHeap
    /\ LET r == BumpVersion(heap, currentVersion, bt) IN
         /\ heap' = r.heap
         /\ newVersion' = r.ret
    /\ lastBump' = bt
    /\ UNCHANGED <<currentVersion, pc, parseVars, commitVars, changelogVars, releaseVars, orderVars, runVars>>

NextVersion == \E bt \in BumpTypes : DoBumpVersion(bt)

SpecVersion == InitVersion /\ [][NextVersion]_vars

-----------------------------------------------------------------------------
(* SpecBump: the bump of a release run: CalculateBumpType on the classified *)
(* commits, then CalculateNextVersion on the current version.              *)

BumpCommitTypes == {"feat", "fix", "docs", "other"}

BumpCommits ==
    {Commit(t, "", "change", b, <<>>, <<"a", "b", "c", "1", "2", "3", "4">>) : t \in BumpCommitTypes, b \in BOOLEAN}

CommitLists == UNION {[1..n -> BumpCommits] : n \in 0..MaxCommits}

\* version.initial 0.1.0, and a tag with prerelease and build
BumpStartTexts == {<<"0", ".", "1", ".", "0">>, ExampleText}

InitBump ==
    /\ cfg \in Configs
    /\ commits \in CommitLists
    /\ bumpType = -1
    /\ gitCommits = <<>>
    /\ \E s \in BumpStartTexts : heap = <<ParseVersion(s).v>>
    /\ currentVersion = 1
    /\ newVersion = 0
    /\ lastBump = -1
    /\ pc = "start"
    /\ ParseIdle /\ ChangelogIdle /\ ReleaseIdle /\ OrderIdle /\ RunIdle

DoCalculateBumpType ==
    /\ pc = "start"
    /\ bumpType' = CalculateBumpType(cfg, commits)
    /\ pc' = "bumped"
    /\ UNCHANGED <<cfg, commits, gitCommits, versionVars, parseVars, changelogVars, releaseVars, orderVars, runVars>>

DoCalculateNextVersion ==
    /\ pc = "bumped"
    /\ LET r == CalculateNextVersion(heap, currentVersion, bumpType) IN
         /\ heap' = r.heap
         /\ newVersion' = r.ret
    /\ lastBump' = bumpType
    /\ pc' = "done"
    /\ UNCHANGED <<currentVersion, commitVars, parseVars, changelogVars, releaseVars, orderVars, runVars>>

NextBump == DoCalculateBumpType \/ DoCalculateNextVersion

SpecBump == InitBump /\ [][NextBump]_vars

-----------------------------------------------------------------------------
(* SpecChangelog: PrependRelease called again and again on one changelog  *)
(* file.                                                                   *)

Hash1 == <<"a", "b", "c", "1", "2", "3", "4", "5", "6">>

\* feat: add login / fix(auth): crash on logout
FeatFixCommits ==
    <<Commit("feat", "", "add login", FALSE, <<>>, Hash1),
      Commit("fix", "auth", "crash on logout", FALSE, <<>>, Hash1)>>

\* fix: restore # Changelog title
MarkerCommits ==
    <<Commit("fix", "", "restore # Changelog title", FALSE, <<>>, Hash1)>>

\* feat!: remove legacy API + BREAKING CHANGE: legacy API removed /
\* docs: fix typo / perf: faster parsing
BreakingCommits ==
    <<Commit("other", "", "feat!: remove legacy API", TRUE, <<"legacy API removed">>, Hash1),
      Commit("docs", "", "fix typo", FALSE, <<>>, Hash1),
      Commit("perf", "", "faster parsing", FALSE, <<>>, <<"a", "b", "c">>)>>

\* fix: adopt Semantic Versioning
SemverCommits ==
    <<Commit("fix", "", "adopt Semantic Versioning", FALSE, <<>>, Hash1)>>

ReleaseCommitLists == {FeatFixCommits, MarkerCommits, BreakingCommits, SemverCommits, <<>>}

ReleaseVersions == {ParseVersion(<<"v", "1", ".", "0", ".", "0">>).v}

Dates == {"2024-05-01"}

\* the releases handed to PrependRelease
ReleaseInputs ==
    {GenerateRelease(DefaultConfig, v, d, cs) :
        v \in ReleaseVersions, d \in Dates, cs \in ReleaseCommitLists}

\* an older release section, as a text
OldSection ==
    Cat(Str(<<"## [", "0", ".", "0", ".", "1", "]", " - ", "2020-01-01">>),
        Cat(Cat(Newline, Newline), Cat(Str(<<"* ", "first release">>), Newline)))

\* a hand-written file without the marker
PlainNotesText == Cat(Cat(Str(<<"Release notes">>), Cat(Newline, Newline)), OldSection)

\* the standard header, a paragraph, then a release section
HeaderNoteText ==
    Cat(HeaderText, Cat(Cat(Str(<<"Unreleased work is tracked elsewhere.">>),
                            Cat(Newline, Newline)), OldSection))

\* a release section first, the marker on a later line
SectionFirstText == Cat(OldSection, Cat(Newline, Cat(Str(<<"# Changelog archive">>), Newline)))

\* the marker, no release section and no attribution lines
TitleOnlyText ==
    Cat(Str(<<"# Changelog">>), Cat(Cat(Newline, Newline),
        Cat(Str(<<"Nothing released yet.">>), Newline)))

\* a short header, then a release section
ShortHeaderText == Cat(Str(<<"# Changelog">>), Cat(Cat(Newline, Newline), OldSection))

\* one line without the marker and without a final newline
OneLineText == Str(<<"Release notes">>)

ExistingTexts ==
    {EmptyText, PlainNotesText, OneLineText, HeaderNoteText, SectionFirstText,
     TitleOnlyText, ShortHeaderText}

MissingFile == [exists |-> FALSE, text |-> EmptyText]

InitChangelog ==
    /\ file \in {MissingFile} \cup {[exists |-> TRUE, text |-> t] : t \in ExistingTexts}
    /\ origin = file
    /\ existingContent = EmptyText
    /\ newRelease = EmptyText
    /\ releases = <<>>
    /\ err = ""
    /\ cfg = DefaultConfig
    /\ commits = <<>>
    /\ gitCommits = <<>>
    /\ bumpType = -1
    /\ pc = "idle"
    /\ VersionIdle /\ ParseIdle /\ ReleaseIdle /\ OrderIdle /\ RunIdle

\* Generator.PrependRelease
PrependRelease(release, sortedTypes, readFails, writeFails) ==
    LET read == ReadExistingChangelog(file, readFails)
        rendered == FormatRelease(cfg, release, sortedTypes)
    IN  IF read.err # ""
        THEN /\ err' = "read"
             /\ UNCHANGED <<file, existingContent, newRelease, releases>>
        ELSE IF writeFails
        THEN /\ err' = "write"
             /\ UNCHANGED <<file, existingContent, newRelease, releases>>
        ELSE /\ file' = [exists |-> TRUE, text |-> NewContent(read.content, rendered)]
             /\ existingContent' = read.content
             /\ newRelease' = rendered
             /\ releases' = Append(releases, rendered)
             /\ err' = ""

DoPrependRelease ==
    /\ Len(releases) < MaxReleases
    /\ \E release \in ReleaseInputs, readFails \in BOOLEAN, writeFails \in BOOLEAN :
         \E sortedTypes \in SortCommitsByType(release.GroupedCommits) :
            PrependRelease(release, sortedTypes, readFails, writeFails)
    /\ UNCHANGED <<origin, commitVars, pc, versionVars, parseVars, releaseVars, orderVars, runVars>>

NextChangelog == DoPrependRelease

SpecChangelog == InitChangelog /\ [][NextChangelog]_vars

-----------------------------------------------------------------------------
(* SpecCommit: ParseCommits applied to the commits read from the            *)
(* repository.                                                             *)

\* subject lines
Subjects ==
    {(* "feat: add login" *)
     <<"f", "e", "a", "t", ":", " ", "a", "d", "d", " ", "l", "o",
       "g", "i", "n">>,
     (* "fix(auth): crash on logout" *)
     <<"f", "i", "x", "(", "a", "u", "t", "h", ")", ":", " ", "c",
       "r", "a", "s", "h", " ", "o", "n", " ", "l", "o", "g",
       "o", "u", "t">>,
     (* "feat!: remove legacy API" *)
     <<"f", "e", "a", "t", "!", ":", " ", "r", "e", "m", "o", "v",
       "e", " ", "l", "e", "g", "a", "c", "y", " ", "A", "P",
       "I">>,
     (* "feat(api)!: drop v1" *)
     <<"f", "e", "a", "t", "(", "a", "p", "i", ")", "!", ":", " ",
       "d", "r", "o", "p", " ", "v", "1">>,
     (* "update readme" *)
     <<"u", "p", "d", "a", "t", "e", " ", "r", "e", "a", "d", "m",
       "e">>,
     (* "docs: fix typo" *)
     <<"d", "o", "c", "s", ":", " ", "f", "i", "x", " ", "t", "y",
       "p", "o">>,
     (* "perf: faster parsing" *)
     <<"p", "e", "r", "f", ":", " ", "f", "a", "s", "t", "e", "r",
       " ", "p", "a", "r", "s", "i", "n", "g">>,
     (* "fix(): x" *)
     <<"f", "i", "x", "(", ")", ":", " ", "x">>,
     (* "feat:no space" *)
     <<"f", "e", "a", "t", ":", "n", "o", " ", "s", "p", "a", "c",
       "e">>,
     (* "feat: " *)
     <<"f", "e", "a", "t", ":", " ">>,
     (* "revert: note !: here" *)
     <<"r", "e", "v", "e", "r", "t", ":", " ", "n", "o", "t", "e",
       " ", "!", ":", " ", "h", "e", "r", "e">>,
     (* "fix(a)(b): c" *)
     <<"f", "i", "x", "(", "a", ")", "(", "b", ")", ":", " ", "c">>,
     (* "fix(a(b): c" *)
     <<"f", "i", "x", "(", "a", "(", "b", ")", ":", " ", "c">>,
     (* "chore: BREAKING CHANGE: drop go 1.20" *)
     <<"c", "h", "o", "r", "e", ":", " ", "B", "R", "E", "A", "K",
       "I", "N", "G", " ", "C", "H", "A", "N", "G", "E", ":",
       " ", "d", "r", "o", "p", " ", "g", "o", " ", "1", ".",
       "2", "0">>,
     (* "feat_2: x" *)
     <<"f", "e", "a", "t", "_", "2", ":", " ", "x">>,
     (* "" *)
     <<>>,
     (* " feat: x" *)
     <<" ", "f", "e", "a", "t", ":", " ", "x">>,
     (* "fix: a\nb" *)
     <<"f", "i", "x", ":", " ", "a", "\n", "b">>}

\* commit bodies
Bodies ==
    {(* "" *)
     <<>>,
     (* "BREAKING CHANGE: legacy API removed" *)
     <<"B", "R", "E", "A", "K", "I", "N", "G", " ", "C", "H", "A",
       "N", "G", "E", ":", " ", "l", "e", "g", "a", "c", "y",
       " ", "A", "P", "I", " ", "r", "e", "m", "o", "v", "e",
       "d">>,
     (* "details\n\nBREAKING-CHANGE legacy removed\nmore" *)
     <<"d", "e", "t", "a", "i", "l", "s", "\n", "\n", "B", "R", "E",
       "A", "K", "I", "N", "G", "-", "C", "H", "A", "N", "G",
       "E", " ", "l", "e", "g", "a", "c", "y", " ", "r", "e",
       "m", "o", "v", "e", "d", "\n", "m", "o", "r", "e">>,
     (* "BREAKING CHANGE:" *)
     <<"B", "R", "E", "A", "K", "I", "N", "G", " ", "C", "H", "A",
       "N", "G", "E", ":">>,
     (* "BREAKING CHANGE: a BREAKING-CHANGE: b" *)
     <<"B", "R", "E", "A", "K", "I", "N", "G", " ", "C", "H", "A",
       "N", "G", "E", ":", " ", "a", " ", "B", "R", "E", "A",
       "K", "I", "N", "G", "-", "C", "H", "A", "N", "G", "E",
       ":", " ", "b">>,
     (* "BREAKING CHANGE one\nsee BREAKING CHANGE: \t\nBREAKING CHANGE::two" *)
     <<"B", "R", "E", "A", "K", "I", "N", "G", " ", "C", "H", "A",
       "N", "G", "E", " ", "o", "n", "e", "\n", "s", "e", "e",
       " ", "B", "R", "E", "A", "K", "I", "N", "G", " ", "C",
       "H", "A", "N", "G", "E", ":", " ", "\t", "\n", "B", "R",
       "E", "A", "K", "I", "N", "G", " ", "C", "H", "A", "N",
       "G", "E", ":", ":", "t", "w", "o">>,
     (* "breaking change: lower" *)
     <<"b", "r", "e", "a", "k", "i", "n", "g", " ", "c", "h", "a",
       "n", "g", "e", ":", " ", "l", "o", "w", "e", "r">>,
     (* "x BREAKING CHANGE : y BREAKING CHANGE: z" *)
     <<"x", " ", "B", "R", "E", "A", "K", "I", "N", "G", " ", "C",
       "H", "A", "N", "G", "E", " ", ":", " ", "y", " ", "B",
       "R", "E", "A", "K", "I", "N", "G", " ", "C", "H", "A",
       "N", "G", "E", ":", " ", "z">>}

\* a git.Commit: the fields the parser reads
GitCommit(hash, subject, body) == [Hash |-> hash, Subject |-> subject, Body |-> body]

Hash2 == <<"d", "e", "f", "4", "5", "6", "7", "8", "9">>

Hash3 == <<"0", "1", "2", "7", "8", "9", "a", "b", "c">>

\* feat: add login / fix: crash on logout / feat!: remove legacy API with the
\* body BREAKING CHANGE: legacy API removed
ExampleLog ==
    <<GitCommit(Hash1, <<"f", "e", "a", "t", ":", " ", "a", "d", "d", " ", "l", "o", "g", "i", "n">>, <<>>),
      GitCommit(Hash2, <<"f", "i", "x", ":", " ", "c", "r", "a", "s", "h", " ", "o", "n", " ", "l", "o", "g", "o", "u", "t">>, <<>>),
      GitCommit(Hash3, <<"f", "e", "a", "t", "!", ":", " ", "r", "e", "m", "o", "v", "e", " ", "l", "e", "g", "a", "c", "y", " ", "A", "P", "I">>,
                <<"B", "R", "E", "A", "K", "I", "N", "G", " ", "C", "H", "A", "N", "G", "E", ":", " ", "l", "e", "g", "a", "c", "y", " ", "A", "P", "I", " ", "r", "e", "m", "o", "v", "e", "d">>)>>

\* update readme / fix(auth): crash on logout / perf: faster parsing
MixedLog ==
    <<GitCommit(Hash3, <<"u", "p", "d", "a", "t", "e", " ", "r", "e", "a", "d", "m", "e">>, <<>>),
      GitCommit(Hash1, <<"f", "i", "x", "(", "a", "u", "t", "h", ")", ":", " ", "c", "r", "a", "s", "h", " ", "o", "n", " ", "l", "o", "g", "o", "u", "t">>, <<>>),
      GitCommit(Hash2, <<"p", "e", "r", "f", ":", " ", "f", "a", "s", "t", "e", "r", " ", "p", "a", "r", "s", "i", "n", "g">>, <<>>)>>

GitLogs ==
    {<<GitCommit(Hash1, subject, body)>> : subject \in Subjects, body \in Bodies}
        \cup {<<>>, ExampleLog, MixedLog}

\* a .heraldrc with breaking_change_keywords: ["BREAKING", "DEPRECATED"]
KeywordConfig ==
    [DefaultConfig EXCEPT !.BreakingChangeKeywords =
        <<<<"B", "R", "E", "A", "K", "I", "N", "G">>,
          <<"D", "E", "P", "R", "E", "C", "A", "T", "E", "D">>>>]

\* Parser.ParseCommits; ParseCommit never returns an error
ParseCommits(c, cs) == [i \in 1..Len(cs) |-> ParseCommit(c, cs[i])]

InitCommit ==
    /\ cfg \in {DefaultConfig, KeywordConfig}
    /\ gitCommits \in GitLogs
    /\ commits = <<>>
    /\ bumpType = -1
    /\ pc = "start"
    /\ VersionIdle /\ ParseIdle /\ ChangelogIdle /\ ReleaseIdle /\ OrderIdle /\ RunIdle

DoParseCommits ==
    /\ pc = "start"
    /\ commits' = ParseCommits(cfg, gitCommits)
    /\ pc' = "done"
    /\ UNCHANGED <<cfg, gitCommits, bumpType, versionVars, parseVars, changelogVars, releaseVars, orderVars, runVars>>

NextCommit == DoParseCommits

SpecCommit == InitCommit /\ [][NextCommit]_vars

-----------------------------------------------------------------------------
(* SpecRelease: GenerateRelease on the classified commits of a run, then   *)
(* FormatRelease, which the preview and PrependRelease both call.          *)

\* number of FormatRelease calls on one release
MaxFormats == 2

\* the classified commits a release is generated from
ReleaseCommits ==
    {Commit("feat", "", "add login", FALSE, <<>>, Hash1),
     Commit("feat", "api", "drop v1 !: gone", TRUE, <<>>, Hash2),
     Commit("fix", "auth", "crash on logout", FALSE, <<>>, Hash3),
     Commit("docs", "", "fix typo", FALSE, <<>>, Hash1),
     Commit("docs", "", "rename flags", TRUE, <<"flags renamed">>, Hash2),
     Commit("other", "", "feat!: remove legacy API", TRUE, <<"legacy API removed">>, Hash3),
     Commit("other", "", "update readme", FALSE, <<>>, Hash1),
     Commit("chore", "", "bump deps", FALSE, <<>>, Hash3),
     Commit("refactor", "core", "split parser", TRUE, <<"Parser moved">>, Hash1),
     Commit("perf", "", "faster parsing", FALSE, <<>>, Hash2)}

\* the commit lists ParseCommits may hand over
ReleaseLogs ==
    UNION {[1..n -> ReleaseCommits] : n \in 0..MaxCommits}
        \cup {ParseCommits(DefaultConfig, ExampleLog)}

\* a .heraldrc with changelog.include_all: true
IncludeAllConfig == [DefaultConfig EXCEPT !.IncludeAll = TRUE]

InitRelease ==
    /\ cfg \in {DefaultConfig, IncludeAllConfig}
    /\ commits \in ReleaseLogs
    /\ gitCommits = <<>>
    /\ bumpType = -1
    /\ pc = "start"
    /\ VersionIdle /\ ParseIdle /\ ChangelogIdle /\ ReleaseIdle /\ OrderIdle /\ RunIdle

DoGenerateRelease ==
    /\ pc = "start"
    /\ \E ver \in ReleaseVersions, date \in Dates :
          generated' = GenerateRelease(cfg, ver, date, commits)
    /\ pc' = "generated"
    /\ UNCHANGED <<sortedRuns, formatted, commitVars, versionVars, parseVars, changelogVars, orderVars, runVars>>

DoFormatRelease ==
    /\ pc = "generated"
    /\ Len(sortedRuns) < MaxFormats
    /\ \E sorted \in SortCommitsByType(generated.GroupedCommits) :
          /\ sortedRuns' = Append(sortedRuns, sorted)
          /\ formatted' = FormatRelease(cfg, generated, sorted)
    /\ UNCHANGED <<generated, pc, commitVars, versionVars, parseVars, changelogVars, orderVars, runVars>>

NextRelease == DoGenerateRelease \/ DoFormatRelease

SpecRelease == InitRelease /\ [][NextRelease]_vars

-----------------------------------------------------------------------------
(* SpecCompare: Compare on the versions of three tags, and                 *)
(* CreatePrereleaseVersion on the first of them.                           *)

\* largest iteration handed to CreatePrereleaseVersion
MaxIteration == 2

\* 1.0.0, v1.0.0, 1.0.0+b1, 1.0.0-alpha, 1.0.0-alpha.1, 1.0.0-rc.2, 1.0.0-rc.10,
\* 1.0.0-2, 1.0.1, 1.2, 2.0.0, 10.0.0
CompareTexts ==
    {<<"1", ".", "0", ".", "0">>,
     <<"v", "1", ".", "0", ".", "0">>,
     <<"1", ".", "0", ".", "0", "+", "b", "1">>,
     <<"1", ".", "0", ".", "0", "-", "a", "l", "p", "h", "a">>,
     <<"1", ".", "0", ".", "0", "-", "a", "l", "p", "h", "a", ".", "1">>,
     <<"1", ".", "0", ".", "0", "-", "r", "c", ".", "2">>,
     <<"1", ".", "0", ".", "0", "-", "r", "c", ".", "1", "0">>,
     <<"1", ".", "0", ".", "0", "-", "2">>,
     <<"1", ".", "0", ".", "1">>,
     <<"1", ".", "2">>,
     <<"2", ".", "0", ".", "0">>,
     <<"1", "0", ".", "0", ".", "0">>}

\* the prereleaseType arguments: alpha, rc and the empty string
PrereleaseTypes == {<<"a", "l", "p", "h", "a">>, <<"r", "c">>, <<>>}

Iterations == -1..MaxIteration

InitCompare ==
    /\ \E a \in CompareTexts, b \in CompareTexts, c \in CompareTexts :
          heap = <<ParseVersion(a).v, ParseVersion(b).v, ParseVersion(c).v>>
    /\ currentVersion = 1
    /\ newVersion = 0
    /\ lastBump = -1
    /\ pc = "start"
    /\ OrderIdle
    /\ ParseIdle /\ CommitIdle /\ ChangelogIdle /\ ReleaseIdle /\ RunIdle

DoCreatePrereleaseVersion ==
    /\ pc = "start"
    /\ \E prereleaseType \in PrereleaseTypes, iteration \in Iterations :
          LET r == CreatePrereleaseVersion(heap, currentVersion, prereleaseType, iteration)
          IN  /\ heap' = r.heap
              /\ newVersion' = r.ret
              /\ created' = [prereleaseType |-> prereleaseType,
                             iteration |-> iteration, called |-> TRUE]
    /\ pc' = "created"
    /\ UNCHANGED <<currentVersion, lastBump, compared, parseVars, commitVars,
                   changelogVars, releaseVars, runVars>>

DoCompare ==
    /\ pc \in {"start", "created"}
    /\ compared' = [a \in 1..Len(heap) |->
                      [b \in 1..Len(heap) |-> Compare(heap[a], heap[b])]]
    /\ pc' = "compared"
    /\ UNCHANGED <<versionVars, created, parseVars, commitVars, changelogVars, releaseVars, runVars>>

NextCompare == DoCreatePrereleaseVersion \/ DoCompare

SpecCompare == InitCompare /\ [][NextCompare]_vars

-----------------------------------------------------------------------------
(* git: the repository behind Repository. The log is the first-parent     *)
(* history, oldest commit first; a tag reference holds the hash of the     *)
(* commit (lightweight) or of the tag object (annotated).                  *)

\* hash of the i-th commit of the log
CommitHash(i) == <<"a", "0", "0", "0", "0", "0">> \o Itoa(i)

\* hash of the tag object made at time t
TagObjectHash(t) == <<"b", "0", "0", "0", "0", "0">> \o Itoa(t)

\* a nil *Tag
NoTag == [Name |-> <<>>, Hash |-> <<>>, Date |-> 0]

\* the commit a hash names; CommitObject fails on the hash of a tag object
CommitObject(r, hash) ==
    CHOOSE c \in {r.log[i] : i \in 1..Len(r.log)} : c.Hash = hash

\* the date GetLatestTag reads for a reference: the tagger's for a tag
\* object, the author's of the commit for a lightweight tag
TagDate(r, ref) ==
    IF ref.Annotated THEN ref.When ELSE CommitObject(r, ref.Hash).Date

\* Repository.GetLatestTag: nil without tags, else the first reference of the
\* iteration whose date no other exceeds; the order of the iteration is the
\* reference store's, so every reference of the greatest date may be returned
GetLatestTag(r) ==
    IF r.tags = <<>> THEN {NoTag}
    ELSE {[Name |-> r.tags[i].Name, Hash |-> r.tags[i].Hash, Date |-> TagDate(r, r.tags[i])] :
            i \in {i \in 1..Len(r.tags) :
                     \A j \in 1..Len(r.tags) : TagDate(r, r.tags[j]) <= TagDate(r, r.tags[i])}}

\* strings.Join(lines, "\n")
RECURSIVE Join(_)
Join(lines) ==
    IF lines = <<>> THEN <<>>
    ELSE IF Len(lines) = 1 THEN lines[1]
    ELSE lines[1] \o <<"\n">> \o Join(Tail(lines))

\* GetCommitsSinceTag: the Commit made of one commit of the log; the subject
\* is the first line of the trimmed message, the body the lines from the
\* third on when there are more than two
CommitOf(c) ==
    LET lines == Split(TrimSpace(c.Message), "\n")
    IN  GitCommit(c.Hash, lines[1],
                  IF Len(lines) > 2 THEN Join(SubSeq(lines, 3, Len(lines))) ELSE <<>>)

\* the ForEach of GetCommitsSinceTag from commit i down to the first commit,
\* stopped at the commit whose hash is sinceHash
RECURSIVE LogSince(_, _, _)
LogSince(log, i, sinceHash) ==
    IF i = 0 THEN <<>>
    ELSE IF sinceHash # <<>> /\ log[i].Hash = sinceHash THEN <<>>
    ELSE <<CommitOf(log[i])>> \o LogSince(log, i - 1, sinceHash)

\* GetCommitsSinceTag that resolves the tag to the commit it points to
GetCommitsSinceTagPeeled(r, tagName) ==
    IF r.log = <<>> THEN [err |-> "head", commits |-> <<>>]
    ELSE IF tagName = <<>>
    THEN [err |-> "", commits |-> LogSince(r.log, Len(r.log), <<>>)]
    ELSE IF \A i \in 1..Len(r.tags) : r.tags[i].Name # tagName
    THEN [err |-> "tag", commits |-> <<>>]
    ELSE LET ref == r.tags[CHOOSE i \in 1..Len(r.tags) : r.tags[i].Name = tagName]
         IN  [err |-> "", commits |-> LogSince(r.log, Len(r.log), ref.Target)]

\* Repository.GetCommitsSinceTag: [err, commits], newest commit first;
\* sinceHash is the hash the reference holds
GetCommitsSinceTag(r, tagName) ==
    IF r.log = <<>> THEN [err |-> "head", commits |-> <<>>]
    ELSE IF tagName = <<>>
    THEN [err |-> "", commits |-> LogSince(r.log, Len(r.log), <<>>)]
    ELSE IF \A i \in 1..Len(r.tags) : r.tags[i].Name # tagName
    THEN [err |-> "tag", commits |-> <<>>]
    ELSE LET ref == r.tags[CHOOSE i \in 1..Len(r.tags) : r.tags[i].Name = tagName]
         IN  [err |-> "", commits |-> LogSince(r.log, Len(r.log), ref.Hash)]

\* Repository.GetAllCommits
GetAllCommits(r) == GetCommitsSinceTag(r, <<>>)

\* the reference of an annotated tag made at time t on the commit at HEAD
AnnotatedTag(r, name, t) ==
    [Name |-> name, Hash |-> TagObjectHash(t), Annotated |-> TRUE,
     Target |-> r.log[Len(r.log)].Hash, When |-> t]

\* the reference of a lightweight tag on the commit at HEAD
LightweightTag(r, name) ==
    [Name |-> name, Hash |-> r.log[Len(r.log)].Hash, Annotated |-> FALSE,
     Target |-> r.log[Len(r.log)].Hash, When |-> 0]

\* CreateTag that replaces the tag of the name
CreateTagOverwrite(r, name, tagFails) ==
    IF r.log = <<>> THEN [err |-> "head", repo |-> r]
    ELSE IF tagFails THEN [err |-> "create", repo |-> r]
    ELSE [err |-> "",
          repo |-> [r EXCEPT !.tags = Append(SelectSeq(r.tags, LAMBDA ref : ref.Name # name),
                                             AnnotatedTag(r, name, r.clock + 1)),
                             !.clock = r.clock + 1]]

\* Repository.CreateTag: [err, repo]; go-git makes a tag object, as a
\* message is given, and fails when tagFails (no tagger is configured)
CreateTag(r, name, tagFails) ==
    IF r.log = <<>> THEN [err |-> "head", repo |-> r]
    ELSE IF \E i \in 1..Len(r.tags) : r.tags[i].Name = name
    THEN [err |-> "exists", repo |-> r]
    ELSE IF tagFails THEN [err |-> "create", repo |-> r]
    ELSE [err |-> "",
          repo |-> [r EXCEPT !.tags = Append(r.tags, AnnotatedTag(r, name, r.clock + 1)),
                             !.clock = r.clock + 1]]

\* Repository.IsClean
IsClean(r) == r.clean

\* version.initial of DefaultConfig()
VersionInitial == <<"0", ".", "1", ".", "0">>

\* version.prefix of DefaultConfig()
VersionPrefix == <<"v">>

\* Manager.FormatTagName
FormatTagName(v) ==
    IF VersionPrefix # <<>> THEN VersionPrefix \o WithoutPrefix(v) ELSE String(v)

-----------------------------------------------------------------------------
(* SpecLoad: a command of the CLI: LoadConfig on the .heraldrc, and on a    *)
(* nil error the classification of the commits and the bump.               *)

\* the commits.types of a .heraldrc
FileTypes ==
    {[t \in {} |-> [Title |-> "", Semver |-> ""]],
     "perf" :> [Title |-> "Performance", Semver |-> "patch"],
     "fix" :> [Title |-> "Fixes", Semver |-> "MINOR"],
     "feat" :> [Title |-> "Features", Semver |-> "huge"],
     "docs" :> [Title |-> "", Semver |-> "patch"],
     "wip" :> [Title |-> "Work in progress", Semver |-> ""],
     ("feat" :> [Title |-> "Features", Semver |-> "major"]) @@
        ("fix" :> [Title |-> "Bug Fixes", Semver |-> "critical"])}

\* the .heraldrc files: missing, unreadable, not YAML, and well formed
ConfigFiles ==
    {NoConfigFile}
        \cup {[exists |-> TRUE, readable |-> FALSE, wellFormed |-> w, types |-> ts] :
                 w \in BOOLEAN, ts \in FileTypes}
        \cup {[exists |-> TRUE, readable |-> TRUE, wellFormed |-> w, types |-> ts] :
                 w \in BOOLEAN, ts \in FileTypes}

\* the commits of the repository
LoadLogs == {<<>>, ExampleLog, MixedLog}

InitLoad ==
    /\ configFile \in ConfigFiles
    /\ repo = NoRepository
    /\ run = NoRun
    /\ cfg = NoConfig
    /\ gitCommits \in LoadLogs
    /\ commits = <<>>
    /\ bumpType = -1
    /\ pc = "start"
    /\ VersionIdle /\ ParseIdle /\ ChangelogIdle /\ ReleaseIdle /\ OrderIdle

\* the RunE of a command: LoadConfig, and the return of its error
DoLoadConfig ==
    /\ pc = "start"
    /\ LET r == LoadConfig(configFile) IN
         IF r.err # "" THEN cfg' = cfg /\ pc' = "failed"
         ELSE cfg' = r.config /\ pc' = "loaded"
    /\ UNCHANGED <<commits, bumpType, gitCommits, versionVars, parseVars, changelogVars,
                   releaseVars, orderVars, runVars>>

\* parser.ParseCommits in the command
DoClassify ==
    /\ pc = "loaded"
    /\ commits' = ParseCommits(cfg, gitCommits)
    /\ pc' = "classified"
    /\ UNCHANGED <<cfg, bumpType, gitCommits, versionVars, parseVars, changelogVars,
                   releaseVars, orderVars, runVars>>

\* parser.CalculateBumpType in the command
DoResolveBump ==
    /\ pc = "classified"
    /\ bumpType' = CalculateBumpType(cfg, commits)
    /\ pc' = "resolved"
    /\ UNCHANGED <<cfg, commits, gitCommits, versionVars, parseVars, changelogVars,
                   releaseVars, orderVars, runVars>>

NextLoad == DoLoadConfig \/ DoClassify \/ DoResolveBump

SpecLoad == InitLoad /\ [][NextLoad]_vars

-----------------------------------------------------------------------------
(* SpecRun: herald release on a repository the user commits to and tags.   *)
(* executeRelease is taken in two steps, up to CreateTag and then          *)
(* PrependRelease, so that the order of the two writes can be observed.    *)

\* longest history
MaxLog == 2
\* number of tags in the repository
MaxTags == 2

\* chore: update changelog
MsgChore ==
    <<"c", "h", "o", "r", "e", ":", " ", "u", "p", "d", "a", "t", "e", " ",
      "c", "h", "a", "n", "g", "e", "l", "o", "g", "\n">>

\* feat: drop v1, a blank line, BREAKING CHANGE: v1 removed
MsgBreakingBody ==
    <<"f", "e", "a", "t", ":", " ", "d", "r", "o", "p", " ", "v", "1", "\n",
      "\n", "B", "R", "E", "A", "K", "I", "N", "G", " ", "C", "H", "A",
      "N", "G", "E", ":", " ", "v", "1", " ", "r", "e", "m", "o", "v", "e",
      "d", "\n">>

\* fix: drop v1 and BREAKING CHANGE: v1 removed on the next line
MsgBreakingNextLine ==
    <<"f", "i", "x", ":", " ", "d", "r", "o", "p", " ", "v", "1", "\n",
      "B", "R", "E", "A", "K", "I", "N", "G", " ", "C", "H", "A", "N", "G",
      "E", ":", " ", "v", "1", " ", "r", "e", "m", "o", "v", "e", "d",
      "\n">>

\* the messages the user commits with
Messages == {MsgChore, MsgBreakingBody, MsgBreakingNextLine}

\* the names the user tags with
UserTagNames == {<<"v", "1", ".", "0", ".", "0">>}

\* executeRelease up to CreateTag, from what its calls returned: current
\* from GetCurrentVersion or GetInitialVersion, since from GetCommitsSinceTag
\* or GetAllCommits, then ParseCommits, CalculateBumpType and
\* CalculateNextVersion. The locals of the call, the stage it returned at and
\* the repository it leaves
ExecuteRelease(r, dryRun, tagFails, current, since, conventionalCommits, bump, next) ==
    LET release == GenerateRelease(cfg, next.heap[next.ret], "2024-05-01", conventionalCommits)
        tagName == FormatTagName(next.heap[next.ret])
        tagged == CreateTag(r, tagName, tagFails)
        base == [stage |-> "", err |-> "", isClean |-> IsClean(r), heap |-> <<>>,
                 gitCommits |-> <<>>, commits |-> <<>>, bumpType |-> -1,
                 release |-> NoRelease, tagName |-> <<>>, repo |-> r]
    IN  IF ~IsClean(r) /\ ~dryRun
        THEN [base EXCEPT !.stage = "clean", !.err = "working directory is not clean"]
        ELSE IF current.err # ""
        THEN [base EXCEPT !.stage = "version", !.err = "failed to parse current version"]
        ELSE IF since.err # ""
        THEN [base EXCEPT !.stage = "commits", !.err = "failed to get commits",
                          !.heap = <<current.v>>]
        ELSE IF Len(since.commits) = 0
        THEN [base EXCEPT !.stage = "no commits", !.heap = <<current.v>>]
        ELSE IF bump = None
        THEN [base EXCEPT !.stage = "no bump", !.heap = <<current.v>>,
                          !.gitCommits = since.commits, !.commits = conventionalCommits,
                          !.bumpType = bump]
        ELSE IF dryRun
        THEN [base EXCEPT !.stage = "dry run", !.heap = next.heap,
                          !.gitCommits = since.commits, !.commits = conventionalCommits,
                          !.bumpType = bump, !.release = release]
        ELSE IF tagged.err # ""
        THEN [base EXCEPT !.stage = "tag", !.err = "failed to create git tag",
                          !.heap = next.heap,
                          !.gitCommits = since.commits, !.commits = conventionalCommits,
                          !.bumpType = bump, !.release = release, !.tagName = tagName]
        ELSE [base EXCEPT !.stage = "tagged", !.heap = next.heap,
                          !.gitCommits = since.commits, !.commits = conventionalCommits,
                          !.bumpType = bump, !.release = release, !.tagName = tagName,
                          !.repo = tagged.repo]

InitRun ==
    /\ configFile = NoConfigFile
    /\ cfg = LoadConfig(configFile).config
    /\ repo = [log |-> <<>>, tags |-> <<>>, clean |-> TRUE, clock |-> 0]
    /\ run = NoRun
    /\ file = MissingFile
    /\ origin = file
    /\ existingContent = EmptyText
    /\ newRelease = EmptyText
    /\ releases = <<>>
    /\ err = ""
    /\ commits = <<>>
    /\ gitCommits = <<>>
    /\ bumpType = -1
    /\ pc = "idle"
    /\ VersionIdle /\ ParseIdle /\ ReleaseIdle /\ OrderIdle

\* git commit -a -m message
UserCommit(message) ==
    /\ pc = "idle"
    /\ Len(repo.log) < MaxLog
    /\ repo' = [repo EXCEPT
                  !.log = Append(repo.log, [Hash |-> CommitHash(Len(repo.log) + 1),
                                            Message |-> message,
                                            Date |-> repo.clock + 1]),
                  !.clock = repo.clock + 1,
                  !.clean = TRUE]
    /\ UNCHANGED <<configFile, run, pc, commitVars, versionVars, parseVars, changelogVars,
                   releaseVars, orderVars>>

\* a change to a file of the working tree
UserEdit ==
    /\ pc = "idle"
    /\ repo.clean
    /\ repo' = [repo EXCEPT !.clean = FALSE]
    /\ UNCHANGED <<configFile, run, pc, commitVars, versionVars, parseVars, changelogVars,
                   releaseVars, orderVars>>

\* git tag name, or git tag -a name -m message
UserTag(name, annotated) ==
    /\ pc = "idle"
    /\ repo.log # <<>>
    /\ Len(repo.tags) < MaxTags
    /\ \A i \in 1..Len(repo.tags) : repo.tags[i].Name # name
    /\ repo' = IF annotated
               THEN [repo EXCEPT !.tags = Append(repo.tags,
                                                 AnnotatedTag(repo, name, repo.clock + 1)),
                                 !.clock = repo.clock + 1]
               ELSE [repo EXCEPT !.tags = Append(repo.tags, LightweightTag(repo, name))]
    /\ UNCHANGED <<configFile, run, pc, commitVars, versionVars, parseVars, changelogVars,
                   releaseVars, orderVars>>

\* herald release [--dry-run], up to CreateTag
DoExecuteRelease(dryRun, tagFails) ==
    /\ pc = "idle"
    /\ \E latestTag \in GetLatestTag(repo) :
       \E current \in {IF latestTag # NoTag THEN ParseVersion(latestTag.Name)
                        ELSE ParseVersion(VersionInitial)} :
       \E since \in {IF latestTag # NoTag THEN GetCommitsSinceTag(repo, latestTag.Name)
                      ELSE GetAllCommits(repo)} :
       \E conventionalCommits \in {ParseCommits(cfg, since.commits)} :
       \E bump \in {CalculateBumpType(cfg, conventionalCommits)} :
       \E next \in {CalculateNextVersion(<<current.v>>, 1, bump)} :
       \E r \in {ExecuteRelease(repo, dryRun, tagFails, current, since,
                                conventionalCommits, bump, next)} :
          /\ Len(r.repo.tags) <= MaxTags
          /\ run' = [called |-> TRUE, dryRun |-> dryRun, isClean |-> r.isClean,
                     latestTag |-> latestTag, tagName |-> r.tagName,
                     stage |-> r.stage, err |-> r.err]
          /\ heap' = r.heap
          /\ currentVersion' = IF r.heap = <<>> THEN 0 ELSE 1
          /\ newVersion' = IF r.bumpType \in {-1, None} THEN 0 ELSE Len(r.heap)
          /\ lastBump' = r.bumpType
          /\ gitCommits' = r.gitCommits
          /\ commits' = r.commits
          /\ bumpType' = r.bumpType
          /\ generated' = r.release
          /\ repo' = r.repo
          /\ pc' = IF r.stage = "tagged" THEN "tagged" ELSE "returned"
    /\ UNCHANGED <<configFile, cfg, sortedRuns, formatted, parseVars, changelogVars, orderVars>>

\* executeRelease from PrependRelease on; the changelog is a file of the
\* working tree
DoUpdateChangelog(readFails, writeFails) ==
    /\ pc = "tagged"
    /\ \E sortedTypes \in SortCommitsByType(generated.GroupedCommits) :
          /\ PrependRelease(generated, sortedTypes, readFails, writeFails)
          /\ sortedRuns' = <<sortedTypes>>
          /\ formatted' = FormatRelease(cfg, generated, sortedTypes)
    /\ run' = [run EXCEPT !.stage = IF err' = "" THEN "done" ELSE "changelog",
                          !.err = IF err' = "" THEN "" ELSE "failed to update changelog"]
    /\ repo' = [repo EXCEPT !.clean = IF err' = "" THEN FALSE ELSE repo.clean]
    /\ pc' = "returned"
    /\ UNCHANGED <<configFile, origin, generated, commitVars, versionVars, parseVars, orderVars>>

\* the return of executeRelease and the end of the process: its locals are
\* gone, the repository and the changelog stay
DoReturn ==
    /\ pc = "returned"
    /\ pc' = "idle"
    /\ run' = NoRun
    /\ heap' = <<>> /\ currentVersion' = 0 /\ newVersion' = 0 /\ lastBump' = -1
    /\ gitCommits' = <<>> /\ commits' = <<>> /\ bumpType' = -1
    /\ generated' = NoRelease /\ sortedRuns' = <<>> /\ formatted' = EmptyText
    /\ existingContent' = EmptyText /\ newRelease' = EmptyText /\ err' = ""
    /\ UNCHANGED <<configFile, cfg, repo, file, releases, origin, parseVars, orderVars>>

NextRun ==
    \/ \E message \in Messages : UserCommit(message)
    \/ UserEdit
    \/ \E name \in UserTagNames, annotated \in BOOLEAN : UserTag(name, annotated)
    \/ \E dryRun \in BOOLEAN, tagFails \in BOOLEAN : DoExecuteRelease(dryRun, tagFails)
    \/ \E readFails \in BOOLEAN, writeFails \in BOOLEAN : DoUpdateChangelog(readFails, writeFails)
    \/ DoReturn

SpecRun == InitRun /\ [][NextRun]_vars

-----------------------------------------------------------------------------
(* Claims on the version model. *)

BumpLevels == {Patch, Minor, Major}

\* major, minor, patch, prerelease, build and prefix agree
ValueEqual(a, b) ==
    /\ a.Major = b.Major /\ a.Minor = b.Minor /\ a.Patch = b.Patch
    /\ a.Prerelease = b.Prerelease /\ a.Build = b.Build /\ a.Prefix = b.Prefix

\* C7: BumpVersion(v, Major) is (major+1, 0, 0), BumpVersion(v, Minor) is
\* (major, minor+1, 0), BumpVersion(v, Patch) is (major, minor, patch+1); in
\* the three cases prerelease and build are empty, the prefix is v's, Raw is
\* the rendered result, and the struct v points to is left as it was.
C7_BumpVersionFields ==
    [][lastBump' \in BumpLevels =>
        LET v == heap[currentVersion]
            r == heap'[newVersion']
        IN  /\ lastBump' = Major =>
                 r.Major = v.Major + 1 /\ r.Minor = 0 /\ r.Patch = 0
            /\ lastBump' = Minor =>
                 r.Major = v.Major /\ r.Minor = v.Minor + 1 /\ r.Patch = 0
            /\ lastBump' = Patch =>
                 r.Major = v.Major /\ r.Minor = v.Minor /\ r.Patch = v.Patch + 1
            /\ r.Prerelease = <<>> /\ r.Build = <<>>
            /\ r.Prefix = v.Prefix
            /\ r.Raw = r.Prefix \o Itoa(r.Major) \o <<".">> \o Itoa(r.Minor)
                           \o <<".">> \o Itoa(r.Patch)
            /\ currentVersion' = currentVersion
            /\ newVersion' # currentVersion
            /\ SubSeq(heap', 1, Len(heap)) = heap]_vars

\* C7 witness: a minor bump and a major bump have been taken from a version
\* with non-zero minor and patch, a prerelease and a build
C7_Witness ==
    /\ Len(heap) = 3
    /\ lastBump = Major
    /\ heap[currentVersion].Minor = 1 /\ heap[currentVersion].Patch = 1
    /\ heap[currentVersion].Prerelease # <<>> /\ heap[currentVersion].Build # <<>>
    /\ heap[2].Minor = 2 /\ heap[2].Patch = 0
    /\ heap[newVersion].Major = heap[currentVersion].Major + 1
    /\ heap[newVersion].Minor = 0

\* the Version BumpVersion returns for the struct at the current address
Bumped(bt) ==
    LET r == BumpVersion(heap, currentVersion, bt) IN r.heap[r.ret]

\* C29: a bump by Patch, Minor or Major returns a version strictly greater
\* than the current one under Compare, whatever its prerelease and build; the
\* major bump is greater than the minor bump and the minor bump greater than
\* the patch bump; and a bump of the bumped version is greater again, so that
\* the versions of successive releases strictly increase
C29_BumpIncreases ==
    (lastBump \in BumpLevels /\ newVersion # 0) =>
        LET v == heap[currentVersion] IN
        /\ Compare(heap[newVersion], v) > 0
        /\ IsGreaterThan(heap[newVersion], v)
        /\ Compare(v, heap[newVersion]) < 0
        /\ \A bt \in BumpLevels : Compare(Bumped(bt), v) > 0
        /\ Compare(Bumped(Major), Bumped(Minor)) > 0
        /\ Compare(Bumped(Minor), Bumped(Patch)) > 0
        /\ \A bt \in BumpLevels :
              LET next == BumpVersion(heap, newVersion, bt)
              IN  /\ Compare(next.heap[next.ret], heap[newVersion]) > 0
                  /\ Compare(next.heap[next.ret], v) > 0

\* C29 witness: a patch bump was taken from a version with a prerelease and
\* a build
C29_Witness ==
    /\ lastBump = Patch /\ newVersion # 0
    /\ heap[currentVersion].Prerelease # <<>> /\ heap[currentVersion].Build # <<>>
    /\ heap[newVersion].Patch = heap[currentVersion].Patch + 1

\* C29 witness: a minor bump was taken from a version without prerelease
C29_WitnessPlain ==
    /\ lastBump = Minor /\ newVersion # 0
    /\ heap[currentVersion].Prerelease = <<>> /\ heap[currentVersion].Build = <<>>

\* C8 (as claimed): BumpVersion(v, None) is value-equal to v, also when v has
\* a prerelease or build
C8_BumpNoneIsIdentity ==
    (lastBump = None /\ newVersion # 0) =>
        ValueEqual(heap[newVersion], heap[currentVersion])

\* C10: a canonical [v]MAJOR.MINOR.PATCH[-prerelease][+build] string that
\* ParseVersion accepts is rendered back by String, and by WithoutPrefix
\* without its leading v; v1.2.3-rc.1+build5 parses to 1, 2, 3, -rc.1,
\* +build5, v.
C10_RoundTrip ==
    (pc = "done" /\ versionStr \in FullVersionTexts(ParseNums) /\ parsed.err = "") =>
        /\ String(parsed.v) = versionStr
        /\ WithoutPrefix(parsed.v) =
             (IF versionStr[1] = "v" THEN Tail(versionStr) ELSE versionStr)
        /\ versionStr = ExampleText =>
             /\ parsed.v.Major = 1 /\ parsed.v.Minor = 2 /\ parsed.v.Patch = 3
             /\ parsed.v.Prerelease = <<"-", "r", "c", ".", "1">>
             /\ parsed.v.Build = <<"+", "b", "u", "i", "l", "d", "5">>
             /\ parsed.v.Prefix = <<"v">>

\* C10 witness: the example has been parsed and accepted
C10_Witness ==
    pc = "done" /\ versionStr = ExampleText /\ parsed.err = ""

\* C10 witness of the harder shapes: two-digit numerals, a build that holds
\* a hyphen and no prerelease
C10_WitnessHyphenBuild ==
    /\ pc = "done" /\ parsed.err = ""
    /\ versionStr = <<"1", "0", ".", "0", ".", "1", "2", "+", "b", "-", "1">>

\* the core of a version text: what follows one optional leading v, up to the
\* first - or +
CoreOf(s) ==
    LET t == IF HasPrefixV(s) THEN Tail(s) ELSE s
        cut == {i \in 1..Len(t) : t[i] \in {"-", "+"}}
    IN  IF cut = {} THEN t
        ELSE SubSeq(t, 1, (CHOOSE i \in cut : \A j \in cut : i <= j) - 1)

AllDigits(p) == p # <<>> /\ \A i \in 1..Len(p) : IsDigit(p[i])

\* the core is exactly three dot-separated non-negative integers
HasFullCore(s) ==
    LET parts == Split(CoreOf(s), ".")
    IN  Len(parts) = 3 /\ \A i \in 1..3 : AllDigits(parts[i])

\* C11 (as claimed): ParseVersion returns an error and no Version for every
\* non-empty input whose core is not exactly three dot-separated non-negative
\* integers, so 1, v1 and 1.2 are rejected
C11_ShortCoreRejected ==
    (pc = "done" /\ versionStr # <<>> /\ ~HasFullCore(versionStr)) =>
        (parsed.err # "" /\ parsed.v = NoVersion)

-----------------------------------------------------------------------------
(* Claims on the commit classification. *)

\* the ways to read a subject as type[(scope)]: description: a type of one
\* or more \w characters, an optional scope of one or more characters other
\* than ) between parentheses, a colon, a space and a description of one or
\* more characters other than a newline
Readings(subject) ==
    LET n == Len(subject)
        Words(a, b) == a <= b /\ \A i \in a..b : subject[i] \in WordChars
        Rest(k) ==
            /\ k + 2 <= n /\ subject[k] = ":" /\ subject[k + 1] = " "
            /\ \A i \in (k + 2)..n : subject[i] # "\n"
    IN  {[Type |-> SubSeq(subject, 1, t), Scope |-> <<>>,
          Description |-> SubSeq(subject, t + 3, n)] :
            t \in {t \in 1..n : Words(1, t) /\ Rest(t + 1)}}
        \cup
        {[Type |-> SubSeq(subject, 1, tc[1]),
          Scope |-> SubSeq(subject, tc[1] + 2, tc[2] - 1),
          Description |-> SubSeq(subject, tc[2] + 3, n)] :
            tc \in {tc \in (1..n) \X (1..n) :
                      /\ Words(1, tc[1])
                      /\ tc[1] + 2 < tc[2]
                      /\ subject[tc[1] + 1] = "(" /\ subject[tc[2]] = ")"
                      /\ \A i \in (tc[1] + 2)..(tc[2] - 1) : subject[i] # ")"
                      /\ Rest(tc[2] + 1)}}

\* C12: ParseCommits returns one classified commit per input commit, in input
\* order, and never fails; no Type is empty; a subject that does not read as
\* type[(scope)]: description gets Type other, an empty Scope and the whole
\* subject as Description, a subject that does gets the parts it reads as
C12_ParseCommitTotal ==
    pc = "done" =>
        /\ Len(commits) = Len(gitCommits)
        /\ \A i \in 1..Len(gitCommits) :
              /\ commits[i].Type # ""
              /\ commits[i].Hash = gitCommits[i].Hash
              /\ IF Readings(gitCommits[i].Subject) = {}
                 THEN /\ commits[i].Type = "other"
                      /\ commits[i].Scope = ""
                      /\ commits[i].Description = StringOf(gitCommits[i].Subject)
                 ELSE \A r \in Readings(gitCommits[i].Subject) :
                      /\ commits[i].Type = StringOf(r.Type)
                      /\ commits[i].Scope = StringOf(r.Scope)
                      /\ commits[i].Description = StringOf(r.Description)

\* C12 witness: a log of three commits has been classified, the first as
\* other, the second with a scope, the third without
C12_Witness ==
    /\ pc = "done" /\ gitCommits = MixedLog
    /\ commits[1].Type = "other" /\ commits[1].Description = "update readme"
    /\ commits[2].Type = "fix" /\ commits[2].Scope = "auth"
    /\ commits[3].Type = "perf" /\ commits[3].Scope = ""

\* sub occurs in s
Occurs(s, sub) ==
    \E i \in 0..(Len(s) - Len(sub)) : \A j \in 1..Len(sub) : s[i + j] = sub[j]

\* some configured keyword occurs in the subject, a newline and the body
HoldsKeyword(c, commit) ==
    \E k \in 1..Len(c.BreakingChangeKeywords) :
        Occurs(commit.Subject \o <<"\n">> \o commit.Body, c.BreakingChangeKeywords[k])

\* C13: IsBreakingChange is true exactly when the subject contains !: at any
\* position or subject + newline + body contains a configured keyword,
\* whether or not the subject matched the pattern
C13_BreakingIff ==
    pc = "done" =>
        \A i \in 1..Len(gitCommits) :
            commits[i].IsBreakingChange <=>
                \/ Occurs(gitCommits[i].Subject, <<"!", ":">>)
                \/ HoldsKeyword(cfg, gitCommits[i])

\* C13 witness: a subject that did not match, without !:, is breaking by a
\* keyword of its body
C13_Witness ==
    /\ pc = "done" /\ Len(commits) = 1
    /\ commits[1].Type = "other" /\ commits[1].Description = "update readme"
    /\ commits[1].IsBreakingChange
    /\ gitCommits[1].Body # <<>>

\* C13 witness: a subject that matched is breaking by a !: inside its
\* description alone
C13_WitnessBang ==
    /\ pc = "done" /\ Len(commits) = 1
    /\ commits[1].Type = "revert" /\ commits[1].Description = "note !: here"
    /\ commits[1].IsBreakingChange
    /\ ~HoldsKeyword(cfg, gitCommits[1])

\* white space removed, text has more to it than one leading colon
NonEmptyAfter(text) ==
    LET ns == SelectSeq(text, LAMBDA ch : ~IsSpace(ch))
    IN  ns # <<>> /\ ns # <<":">>

\* the (keyword, line) pairs of a commit message whose line contains the
\* keyword with a non-empty text after its first occurrence
KeywordLines(c, commit) ==
    LET lines == Split(commit.Subject \o <<"\n">> \o commit.Body, "\n")
    IN  {kl \in (1..Len(c.BreakingChangeKeywords)) \X (1..Len(lines)) :
            /\ Occurs(lines[kl[2]], c.BreakingChangeKeywords[kl[1]])
            /\ NonEmptyAfter(AfterFirst(lines[kl[2]], c.BreakingChangeKeywords[kl[1]]))}

\* C14: BreakingChanges has one entry per (configured keyword, line of
\* subject + body containing it) pair whose text after the first occurrence
\* of the keyword is non-empty once trimmed and stripped of one leading
\* colon; a commit that is breaking through !: alone has an empty list; a
\* non-empty list implies IsBreakingChange
C14_EntryPerKeywordLine ==
    pc = "done" =>
        \A i \in 1..Len(gitCommits) :
            /\ Len(commits[i].BreakingChanges) =
                  Cardinality(KeywordLines(cfg, gitCommits[i]))
            /\ \A j \in 1..Len(commits[i].BreakingChanges) :
                  commits[i].BreakingChanges[j] # ""
            /\ ~HoldsKeyword(cfg, gitCommits[i]) => commits[i].BreakingChanges = <<>>
            /\ commits[i].BreakingChanges # <<>> => commits[i].IsBreakingChange

\* C14 witness: one line holding both keywords has given two entries
C14_Witness ==
    /\ pc = "done" /\ Len(commits) = 1
    /\ commits[1].BreakingChanges = <<"a BREAKING-CHANGE: b", "b">>

\* C14 witness: breaking through !: alone, with an empty list
C14_WitnessBangOnly ==
    /\ pc = "done" /\ Len(commits) = 1
    /\ commits[1].IsBreakingChange /\ commits[1].BreakingChanges = <<>>
    /\ Occurs(gitCommits[1].Subject, <<"!", ":">>)
    /\ gitCommits[1].Body = <<>>

-----------------------------------------------------------------------------
(* Claims on the release: filter, groups, order of the sections. *)

\* the commit the changelog keeps
Kept(c, commit) ==
    IF c.IncludeAll THEN TRUE
    ELSE CASE commit.Type \in {"feat", "fix"} -> TRUE
           [] commit.Type \in {"docs", "style", "refactor", "test", "chore"} ->
                commit.IsBreakingChange
           [] OTHER -> TRUE

\* out holds the elements of cs whose index is in idx, in the order of cs
IsSelection(out, cs, idx) ==
    /\ Len(out) = Cardinality(idx)
    /\ \A i \in idx : out[Cardinality({k \in idx : k <= i})] = cs[i]

C15_WitnessIncludeAll ==
    /\ pc = "generated" /\ cfg.IncludeAll
    /\ \E i \in 1..Len(generated.Commits) :
          generated.Commits[i].Type = "docs" /\ ~generated.Commits[i].IsBreakingChange

\* C25: without include_all the release holds only feat and fix commits and
\* breaking commits: every commit of the release's list is of type feat or
\* fix or is breaking, and so is every commit of every group that is
\* rendered as a section
C25_OnlyFeatFixBreaking ==
    (pc = "generated" /\ ~cfg.IncludeAll) =>
        /\ \A i \in 1..Len(generated.Commits) :
              \/ generated.Commits[i].Type \in {"feat", "fix"}
              \/ generated.Commits[i].IsBreakingChange
        /\ \A t \in DOMAIN generated.GroupedCommits :
              \A i \in 1..Len(generated.GroupedCommits[t]) :
                 \/ t \in {"feat", "fix"}
                 \/ generated.GroupedCommits[t][i].IsBreakingChange

\* the line that opens the breaking changes section
BreakingHeader == <<"### ⚠ BREAKING CHANGES">>

\* the lines of a text that open the breaking changes section
BreakingHeaderLines(text) == {i \in 1..Len(text) : text[i] = BreakingHeader}

\* the lines of a text that open a type section
TypeHeaderLines(text) ==
    {i \in 1..Len(text) : Len(text[i]) = 2 /\ text[i][1] = "### "}

\* the bullets of the section opened at line h: the lines beginning with "* "
\* up to the next type section
SectionBullets(text, h) ==
    {i \in (h + 1)..Len(text) :
        /\ text[i] # <<>> /\ text[i][1] = "* "
        /\ \A t \in TypeHeaderLines(text) : t > h => i < t}

\* the classified commits of the example: feat: add login, fix: crash on
\* logout, feat!: remove legacy API with BREAKING CHANGE: legacy API removed
ExampleCommits == ParseCommits(DefaultConfig, ExampleLog)

\* C16: the rendered release has a BREAKING CHANGES section exactly when a
\* commit of the unfiltered list is breaking; the section comes after the
\* release heading and before every type section and lists each breaking
\* commit of the unfiltered list once, in input order. The example renders
\* a breaking entry for remove legacy API, Features with add login and
\* Bug Fixes with crash on logout
C16_BreakingSection ==
    (pc = "generated" /\ sortedRuns # <<>>) =>
        LET breakingCommits == SelectSeq(commits, LAMBDA commit : commit.IsBreakingChange)
            hs == BreakingHeaderLines(formatted)
        IN  /\ hs # {} <=> \E i \in 1..Len(commits) : commits[i].IsBreakingChange
            /\ Cardinality(hs) <= 1
            /\ formatted[1][1] = "## ["
            /\ \A h \in hs :
                  /\ h > 1
                  /\ \A t \in TypeHeaderLines(formatted) : h < t
                  /\ Cardinality(SectionBullets(formatted, h)) = Len(breakingCommits)
                  /\ \A i \in SectionBullets(formatted, h) :
                        LET j == Cardinality({k \in SectionBullets(formatted, h) : k <= i})
                        IN  /\ formatted[i][2] = breakingCommits[j].Description
                            /\ breakingCommits[j].Scope # "" =>
                                  formatted[i][4] = breakingCommits[j].Scope
            /\ commits = ExampleCommits =>
                  /\ \E h \in hs :
                        /\ formatted[h + 2] = <<"* ", "feat!: remove legacy API">>
                        /\ formatted[h + 3] = <<"  ", "legacy API removed">>
                  /\ \E t \in TypeHeaderLines(formatted) :
                        /\ formatted[t][2] = "Features"
                        /\ \E i \in SectionBullets(formatted, t) : formatted[i][2] = "add login"
                  /\ \E t \in TypeHeaderLines(formatted) :
                        /\ formatted[t][2] = "Bug Fixes"
                        /\ \E i \in SectionBullets(formatted, t) :
                              formatted[i][2] = "crash on logout"

\* C16 witness: the example has been rendered, with its breaking changes
\* section
C16_Witness ==
    /\ pc = "generated" /\ sortedRuns # <<>>
    /\ commits = ExampleCommits
    /\ BreakingHeaderLines(formatted) # {}

\* C16 witness: two breaking commits around one that is not, one of them of
\* a type the filter keeps only when breaking
C16_WitnessTwo ==
    /\ pc = "generated" /\ sortedRuns # <<>> /\ Len(commits) = 3
    /\ commits[1].Type = "docs" /\ commits[1].IsBreakingChange
    /\ ~commits[2].IsBreakingChange
    /\ commits[3].Type = "feat" /\ commits[3].IsBreakingChange

\* the subjects T!: D and T(S)!: D, as <<T, S>>: T a run of word characters,
\* S free of ), D not empty
BangReadings(subject) ==
    LET n == WordRun(subject)
        rest == SubSeq(subject, n + 1, Len(subject))
        close == IndexOf(rest, ")")
        IsBang(t) == Len(t) >= 4 /\ SubSeq(t, 1, 3) = <<"!", ":", " ">>
    IN  IF n = 0 THEN {}
        ELSE IF IsBang(rest) THEN {<<SubSeq(subject, 1, n), <<>>>>}
        ELSE IF /\ rest # <<>> /\ rest[1] = "(" /\ close > 2
                /\ IsBang(SubSeq(rest, close + 1, Len(rest)))
             THEN {<<SubSeq(subject, 1, n), SubSeq(rest, 2, close - 1)>>}
        ELSE {}

\* C30: a subject T!: D or T(S)!: D is classified as breaking, with Type
\* other, an empty Scope and the whole subject as Description; the commit is
\* in the group other and in no other group, and every rendering of the
\* release lists it under the section Other and under no other type section
C30_BangIsOther ==
    pc = "done" =>
        \A i \in 1..Len(gitCommits) :
           BangReadings(gitCommits[i].Subject) # {} =>
              /\ commits[i].IsBreakingChange
              /\ commits[i].Type = "other"
              /\ commits[i].Scope = ""
              /\ commits[i].Description = StringOf(gitCommits[i].Subject)
              /\ \A ver \in ReleaseVersions, date \in Dates :
                    LET release == GenerateRelease(cfg, ver, date, commits)
                        groups == release.GroupedCommits
                    IN  /\ "other" \in DOMAIN groups
                        /\ \E k \in 1..Len(groups["other"]) : groups["other"][k] = commits[i]
                        /\ \A t \in DOMAIN groups \ {"other"} :
                              \A k \in 1..Len(groups[t]) : groups[t][k] # commits[i]
                        /\ \A sorted \in SortCommitsByType(groups) :
                              LET text == FormatRelease(cfg, release, sorted)
                              IN  \A h \in TypeHeaderLines(text) :
                                     (\E b \in SectionBullets(text, h) :
                                         text[b][2] = commits[i].Description)
                                        <=> text[h][2] = "Other"

\* C30 witness: feat!: remove legacy API was classified next to feat: add
\* login, so that the release has a Features section and an Other section
C30_Witness ==
    /\ pc = "done" /\ gitCommits = ExampleLog
    /\ BangReadings(gitCommits[3].Subject) = {<<<<"f", "e", "a", "t">>, <<>>>>}
    /\ commits[1].Type = "feat" /\ commits[3].Type = "other"

\* C30 witness: a subject with a scope before the ! was classified
C30_WitnessScope ==
    /\ pc = "done" /\ Len(gitCommits) = 1
    /\ \E r \in BangReadings(gitCommits[1].Subject) : r[2] = <<"a", "p", "i">>
    /\ commits[1].Type = "other"

\* position of a type in the priority slice, 0 for the other types
PriorityRank(t) ==
    IF \E i \in 1..Len(Priority) : Priority[i] = t
    THEN CHOOSE i \in 1..Len(Priority) : Priority[i] = t
    ELSE 0

\* sorted holds every key of the grouping once, the priority types first and
\* in the order of the priority slice
IsPriorityPermutation(sorted, groups) ==
    /\ Len(sorted) = Cardinality(DOMAIN groups)
    /\ {sorted[i] : i \in 1..Len(sorted)} = DOMAIN groups
    /\ \A i, j \in 1..Len(sorted) :
          i < j =>
             /\ PriorityRank(sorted[i]) = 0 => PriorityRank(sorted[j]) = 0
             /\ PriorityRank(sorted[j]) # 0 => PriorityRank(sorted[i]) < PriorityRank(sorted[j])

\* the part of C17 on one invocation: a permutation of the keys, priority
\* types first and in fixed order
SortedIsPriorityPermutation ==
    \A r \in 1..Len(sortedRuns) :
        IsPriorityPermutation(sortedRuns[r], generated.GroupedCommits)

\* C17 (as claimed): SortCommitsByType returns a permutation of the keys of
\* the grouping, the present priority types first in fixed order and then the
\* other types, and two invocations on the same grouping return the same
\* sequence, also with two or more types outside the priority list
C17_SortDeterministic ==
    /\ SortedIsPriorityPermutation
    /\ \A r1, r2 \in 1..Len(sortedRuns) : sortedRuns[r1] = sortedRuns[r2]

\* the sum of the sizes of the groups with a key in keys
RECURSIVE SumSizes(_, _)
SumSizes(groups, keys) ==
    IF keys = {} THEN 0
    ELSE LET t == CHOOSE t \in keys : TRUE
         IN  Len(groups[t]) + SumSizes(groups, keys \ {t})

\* C18: the groups partition the filtered commits and keep their order: each
\* filtered commit is in the group keyed by its Type and in no other, no
\* group is empty, the group sizes add up to the number of filtered commits
\* and a group holds its commits in input order
C18_GroupsPartition ==
    pc = "generated" =>
        LET groups == generated.GroupedCommits
            cs == generated.Commits
        IN  /\ \A i \in 1..Len(cs) : cs[i].Type \in DOMAIN groups
            /\ \A t \in DOMAIN groups :
                  /\ Len(groups[t]) > 0
                  /\ IsSelection(groups[t], cs, {i \in 1..Len(cs) : cs[i].Type = t})
            /\ SumSizes(groups, DOMAIN groups) = Len(cs)

\* C18 witness: two commits of one type around a commit of another type
C18_Witness ==
    /\ pc = "generated" /\ Len(generated.Commits) = 3
    /\ generated.Commits[1].Type = "feat"
    /\ generated.Commits[2].Type = "other"
    /\ generated.Commits[3].Type = "feat"
    /\ generated.Commits[1] # generated.Commits[3]
    /\ Len(generated.GroupedCommits["feat"]) = 2

-----------------------------------------------------------------------------
(* Claims on Compare and CreatePrereleaseVersion. *)

\* the sign of an integer
Sign(n) == IF n < 0 THEN -1 ELSE IF n > 0 THEN 1 ELSE 0

\* what Compare reads of a version
Precedence(v) == <<v.Major, v.Minor, v.Patch, v.Prerelease>>

\* the version renders to a semantic version
WellFormed(v) == SemverIsValid(<<"v">> \o WithoutPrefix(v))

C19_WitnessCreated ==
    /\ pc = "compared" /\ Len(heap) = 4
    /\ heap[1].Major = 10 /\ heap[2].Major = 2 /\ compared[1][2] = 1
    /\ compared[4][1] = -1

\* fmt.Sprintf("%d", n) for any integer n
SignedItoa(n) == IF n < 0 THEN <<"-">> \o Itoa(-n) ELSE Itoa(n)

\* a CreatePrereleaseVersion call has just returned a version that keeps
\* major, minor, patch, build and prefix of the base and left the base as it
\* was
KeepsBase ==
    /\ newVersion' # currentVersion
    /\ heap'[currentVersion] = heap[currentVersion]
    /\ heap'[newVersion'].Major = heap[currentVersion].Major
    /\ heap'[newVersion'].Minor = heap[currentVersion].Minor
    /\ heap'[newVersion'].Patch = heap[currentVersion].Patch
    /\ heap'[newVersion'].Build = heap[currentVersion].Build
    /\ heap'[newVersion'].Prefix = heap[currentVersion].Prefix

\* C20 (as claimed): CreatePrereleaseVersion keeps major, minor, patch, build
\* and prefix of the base, does not modify the base, and sets the prerelease
\* to -label when iteration = 0 and to -label.<iteration> for every other
\* iteration
C20_PrereleaseUnlessZero ==
    [][(created'.called /\ ~created.called) =>
          /\ KeepsBase
          /\ heap'[newVersion'].Prerelease =
                IF created'.iteration = 0
                THEN <<"-">> \o created'.prereleaseType
                ELSE <<"-">> \o created'.prereleaseType \o <<".">>
                         \o SignedItoa(created'.iteration)]_vars

\* C20 (amended): CreatePrereleaseVersion keeps major, minor, patch, build
\* and prefix of the base, does not modify the base, and sets the prerelease
\* to -label when iteration <= 0 and to -label.<iteration> when iteration > 0
C20_PrereleaseWhenPositive ==
    [][(created'.called /\ ~created.called) =>
          /\ KeepsBase
          /\ heap'[newVersion'].Prerelease =
                IF created'.iteration <= 0
                THEN <<"-">> \o created'.prereleaseType
                ELSE <<"-">> \o created'.prereleaseType \o <<".">>
                         \o SignedItoa(created'.iteration)]_vars

\* C20 witness: a prerelease of a base with a build, for a negative iteration
C20_Witness ==
    /\ created.called /\ created.iteration < 0
    /\ created.prereleaseType = <<"a", "l", "p", "h", "a">>
    /\ heap[currentVersion].Build # <<>>
    /\ heap[newVersion].Prerelease = <<"-", "a", "l", "p", "h", "a">>
    /\ heap[newVersion].Build = heap[currentVersion].Build

\* C20 witness: a positive iteration on a base with the prefix v
C20_WitnessIteration ==
    /\ created.called /\ created.iteration = 2
    /\ heap[currentVersion].Prefix = <<"v">>
    /\ heap[newVersion].Prerelease = <<"-", "r", "c", ".", "2">>
    /\ heap[newVersion].Raw = <<"v", "1", ".", "0", ".", "0", "-", "r", "c", ".", "2">>

-----------------------------------------------------------------------------
(* Claims on the bump. *)

HasBreaking(cs) == \E i \in 1..Len(cs) : cs[i].IsBreakingChange

\* the severity the configuration gives a commit type, None when it has none
SeverityOf(c, type) ==
    IF type \in DOMAIN c.Types THEN LevelOf(c.Types[type].Semver) ELSE None

\* the highest configured severity over the commits, None for no commit
MaxSeverity(c, cs) ==
    IF cs = <<>> THEN None
    ELSE CHOOSE m \in BumpTypes :
            /\ \E i \in 1..Len(cs) : SeverityOf(c, cs[i].Type) = m
            /\ \A i \in 1..Len(cs) : SeverityOf(c, cs[i].Type) <= m

\* C1: a commit list with a breaking commit, wherever it stands and whatever
\* the other commits are, resolves to Major.
C1_BreakingIsMajor ==
    (bumpType # -1 /\ HasBreaking(commits)) => bumpType = Major

\* C1 witness: the only breaking commit is the last of three, a docs commit,
\* behind a feat and a fix
C1_Witness ==
    /\ bumpType = Major
    /\ Len(commits) = 3
    /\ commits[1].Type = "feat" /\ ~commits[1].IsBreakingChange
    /\ commits[2].Type = "fix" /\ ~commits[2].IsBreakingChange
    /\ commits[3].Type = "docs" /\ commits[3].IsBreakingChange

\* C2 (as claimed): without a breaking commit the result is the highest
\* severity the configuration gives the commits' types, for the default and
\* for a customised configuration.
C2_MaxConfiguredSeverity ==
    (bumpType # -1 /\ ~HasBreaking(commits)) => bumpType = MaxSeverity(cfg, commits)

\* C9: under the default configuration a list with no breaking commit and no
\* commit whose type carries a bump resolves to None, and CalculateNextVersion
\* then returns the current version itself, no field changed.
C9_NoBumpKeepsVersion ==
    [][(pc = "bumped" /\ pc' = "done" /\ cfg = DefaultConfig /\ ~HasBreaking(commits)
          /\ \A i \in 1..Len(commits) : SeverityOf(cfg, commits[i].Type) = None) =>
        /\ bumpType = None
        /\ newVersion' = currentVersion
        /\ currentVersion' = currentVersion
        /\ heap' = heap]_vars

\* C9 witness: docs and unrecognised commits only, current version
\* v1.2.3-rc.1+build5, next version computed
C9_Witness ==
    /\ pc = "done" /\ cfg = DefaultConfig
    /\ Len(commits) = 2
    /\ commits[1].Type = "docs" /\ ~commits[1].IsBreakingChange
    /\ commits[2].Type = "other" /\ ~commits[2].IsBreakingChange
    /\ bumpType = None
    /\ newVersion = currentVersion
    /\ heap[currentVersion].Raw = ExampleText

\* C9 witness of the empty list
C9_WitnessEmpty ==
    pc = "done" /\ commits = <<>> /\ bumpType = None /\ newVersion = currentVersion

\* the lists that hold the elements of cs in another order
Reorderings(cs) ==
    {[i \in 1..Len(cs) |-> cs[o[i]]] : o \in Orderings(1..Len(cs))}

\* C21: CalculateBumpType returns the same level for every permutation of
\* the commit list, and again the same level when called once more on the
\* list
C21_BumpOrderIndependent ==
    bumpType # -1 =>
        /\ CalculateBumpType(cfg, commits) = bumpType
        /\ \A cs \in Reorderings(commits) : CalculateBumpType(cfg, cs) = bumpType

\* C21 witness: three commits of three types, the fix before the feat, with
\* six orders to go through
C21_Witness ==
    /\ bumpType = Minor /\ Len(commits) = 3
    /\ commits[1].Type = "fix" /\ commits[2].Type = "feat" /\ commits[3].Type = "docs"
    /\ Cardinality(Reorderings(commits)) = 6

-----------------------------------------------------------------------------
(* Claims on the changelog merge. *)

\* the number of lines of a text that satisfy P
RECURSIVE CountLines(_, _, _)
CountLines(P(_), text, k) ==
    IF k > Len(text) THEN 0
    ELSE (IF P(text[k]) THEN 1 ELSE 0) + CountLines(P, text, k + 1)

\* the line is a "# Changelog" header
IsHeaderLine(line) == line # <<>> /\ line[1] \in HeaderWords

\* the run started from a missing or an empty changelog file
FromEmpty == ~origin.exists \/ origin.text = EmptyText

\* the sections written so far, newest first, as one text
RECURSIVE NewestFirst(_)
NewestFirst(rs) ==
    IF rs = <<>> THEN EmptyText
    ELSE Cat(rs[Len(rs)], NewestFirst(SubSeq(rs, 1, Len(rs) - 1)))

\* the suffix of a text from its first line that begins with "## ", the
\* empty text when there is no such line
SuffixFromFirstH2(text) ==
    IF \E k \in 1..Len(text) : HasPrefixH2(text[k])
    THEN SubSeq(text, CHOOSE k \in 1..Len(text) :
                        HasPrefixH2(text[k]) /\ \A j \in 1..(k - 1) : ~HasPrefixH2(text[j]),
                Len(text))
    ELSE EmptyText

\* C3 (as claimed): from a missing or empty file, after n >= 1 PrependRelease
\* calls the document has exactly one "# Changelog" header.
C3_ExactlyOneHeader ==
    (FromEmpty /\ Len(releases) >= 1) => CountLines(IsHeaderLine, file.text, 1) = 1

\* C4 (as claimed): from a missing or empty file, the document holds the
\* rendered section of every release written so far, once and unmodified,
\* newest first, under the header or under nothing.
C4_AllSectionsNewestFirst ==
    (FromEmpty /\ Len(releases) >= 1) =>
        file.text \in {NewestFirst(releases), Cat(HeaderText, NewestFirst(releases))}

\* C5 (as claimed): when the existing document holds the marker, what is
\* carried over is the suffix from its first line that begins with "## ",
\* written right after the new release section.
C5_CarriesFromFirstH2 ==
    (Len(releases) >= 1 /\ ContainsMarker(existingContent)) =>
        file.text = Cat(newRelease, SuffixFromFirstH2(existingContent))

\* C6: when the existing document is missing, empty or without the marker,
\* the file is the standard header, the new release section, then the whole
\* existing text; from an empty document that is one header and one line
\* that begins with "## ".
C6_HeaderReleaseExisting ==
    (Len(releases) >= 1 /\ ~ContainsMarker(existingContent)) =>
        /\ file.exists
        /\ file.text = Cat(Cat(HeaderText, newRelease), existingContent)
        /\ Len(releases) = 1 =>
             existingContent = (IF origin.exists THEN origin.text ELSE EmptyText)
        /\ existingContent = EmptyText =>
             /\ CountLines(IsHeaderLine, file.text, 1) = 1
             /\ CountLines(HasPrefixH2, file.text, 1) = 1

\* C6 witness: a release with two bullets merged into the hand-written notes
C6_Witness ==
    /\ Len(releases) = 1
    /\ origin = [exists |-> TRUE, text |-> PlainNotesText]
    /\ existingContent = PlainNotesText
    /\ newRelease = FormatRelease(DefaultConfig,
                        GenerateRelease(DefaultConfig,
                            ParseVersion(<<"v", "1", ".", "0", ".", "0">>).v,
                            "2024-05-01", FeatFixCommits),
                        <<"feat", "fix">>)
    /\ file.text = Cat(Cat(HeaderText, newRelease), PlainNotesText)

\* C6 witness: a release merged into a missing file
C6_WitnessMissing ==
    /\ Len(releases) = 1 /\ ~origin.exists /\ existingContent = EmptyText
    /\ file.exists /\ Len(file.text) > Len(HeaderText)

\* C6 witness: the third release, the second merge having dropped the marker
C6_WitnessThird ==
    /\ Len(releases) = 3 /\ FromEmpty /\ ~ContainsMarker(existingContent)
    /\ existingContent # EmptyText

\* a PrependRelease call whose read and write fail as given has just returned
PrependReleaseStep(readFails, writeFails) ==
    \E rel \in ReleaseInputs :
        \E sorted \in SortCommitsByType(rel.GroupedCommits) :
            PrependRelease(rel, sorted, readFails, writeFails)

\* C22: PrependRelease takes a missing file for an empty document and
\* succeeds; another read failure is returned and the file is left as it
\* was, nothing being written; a write failure is returned; a failed call is
\* not repeated, so it adds no release
C22_ReadWriteFailures ==
    [][ /\ (~file.exists /\ PrependReleaseStep(TRUE, FALSE)) =>
              (err' = "" /\ existingContent' = EmptyText /\ file'.exists)
        /\ (file.exists /\ PrependReleaseStep(TRUE, FALSE)) =>
              (err' = "read" /\ file' = file /\ releases' = releases)
        /\ (file.exists /\ PrependReleaseStep(TRUE, TRUE)) =>
              (err' = "read" /\ file' = file /\ releases' = releases)
        /\ PrependReleaseStep(FALSE, TRUE) =>
              (err' = "write" /\ releases' = releases)
        /\ err' # "" => Len(releases') = Len(releases)
        /\ err' = "" => Len(releases') = Len(releases) + 1 ]_vars

\* C22 witness: the read of an existing changelog has failed
C22_Witness ==
    /\ err = "read" /\ origin.exists /\ file = origin /\ releases = <<>>

\* C22 witness: a release written to a changelog that did not exist
C22_WitnessMissing ==
    /\ err = "" /\ ~origin.exists /\ Len(releases) = 1
    /\ existingContent = EmptyText /\ file.exists

\* C22 witness: the write has failed after a release was written
C22_WitnessWrite ==
    /\ err = "write" /\ Len(releases) = 1

-----------------------------------------------------------------------------
(* Claims on the configuration. *)

\* C26: a .heraldrc whose commit types hold an empty title or a semver level
\* outside major, minor, patch, none is rejected by LoadConfig: the command
\* gets an error and classifies no commit and resolves no bump, so that a
\* command past LoadConfig holds a configuration Validate accepts
C26_InvalidConfigRejected ==
    pc \in {"loaded", "classified", "resolved"} => Validate(cfg) = ""

-----------------------------------------------------------------------------
(* Claims on the release run. *)

\* a step of executeRelease
ExecuteReleaseStep ==
    \/ \E dryRun \in BOOLEAN, tagFails \in BOOLEAN : DoExecuteRelease(dryRun, tagFails)
    \/ \E readFails \in BOOLEAN, writeFails \in BOOLEAN : DoUpdateChangelog(readFails, writeFails)

\* the commits of the log made after the commit the tag of the name points
\* to, oldest first; the whole log for no tag
CommitsAfter(r, name) ==
    IF name = <<>> THEN r.log
    ELSE LET ref == r.tags[CHOOSE i \in 1..Len(r.tags) : r.tags[i].Name = name]
             at == CHOOSE i \in 1..Len(r.log) : r.log[i].Hash = ref.Target
         IN  SubSeq(r.log, at + 1, Len(r.log))

\* C23: a step of executeRelease changes the tags or the changelog file only
\* in a run that is not a dry run, on a clean working tree, with at least one
\* commit made since the latest tag and a bump other than None
C23_WritesOnlyWhenReleasing ==
    [][(ExecuteReleaseStep /\ (repo'.tags # repo.tags \/ file' # file)) =>
          /\ ~run'.dryRun
          /\ run'.isClean
          /\ CommitsAfter(repo, run'.latestTag.Name) # <<>>
          /\ bumpType' \notin {None, -1}]_vars

\* the run got past GetCommitsSinceTag or GetAllCommits
GotCommits ==
    /\ pc \in {"tagged", "returned"}
    /\ run.stage \in {"no commits", "no bump", "dry run", "tag", "tagged", "changelog", "done"}

\* the hashes of a sequence of commits, last first
RECURSIVE HashesNewestFirst(_)
HashesNewestFirst(cs) ==
    IF cs = <<>> THEN <<>>
    ELSE <<cs[Len(cs)].Hash>> \o HashesNewestFirst(SubSeq(cs, 1, Len(cs) - 1))

\* C24: the commits a run works on are exactly the commits made after the
\* commit its latest tag points to, newest first, whether the tag is
\* lightweight or annotated; after a release and new commits the next run
\* works on those new commits only
C24_CommitsSinceTag ==
    GotCommits =>
        [i \in 1..Len(gitCommits) |-> gitCommits[i].Hash]
            = HashesNewestFirst(CommitsAfter(repo, run.latestTag.Name))

\* the names of the tags of a repository
TagNames(r) == {r.tags[i].Name : i \in 1..Len(r.tags)}

\* C27: executeRelease creates the tag in a step before the one that writes
\* the changelog, and writes the changelog only when CreateTag has succeeded
\* in the same run; a run whose CreateTag fails, as it does for a tag name
\* that exists, returns an error and leaves the tags and the changelog as
\* they are
C27_TagBeforeChangelog ==
    [][ExecuteReleaseStep =>
          /\ repo'.tags # repo.tags =>
                /\ pc = "idle" /\ pc' = "tagged"
                /\ file' = file
                /\ run'.tagName \notin TagNames(repo)
                /\ repo'.tags = Append(repo.tags, repo'.tags[Len(repo'.tags)])
                /\ repo'.tags[Len(repo'.tags)].Name = run'.tagName
          /\ file' # file =>
                /\ pc = "tagged" /\ run.stage = "tagged" /\ run.err = ""
                /\ run.tagName \in TagNames(repo)
                /\ repo'.tags = repo.tags
          /\ (pc = "idle" /\ run'.stage = "tag") =>
                /\ run'.err # "" /\ pc' = "returned"
                /\ repo'.tags = repo.tags /\ file' = file
          /\ (pc = "idle" /\ run'.tagName # <<>> /\ run'.tagName \in TagNames(repo)) =>
                /\ run'.stage = "tag" /\ run'.err # ""
                /\ repo' = repo /\ file' = file
          /\ pc' = "tagged" => repo'.tags # repo.tags]_vars

\* C27 witness: a run has created its tag and then written the changelog
C27_Witness ==
    /\ pc = "returned" /\ run.stage = "done"
    /\ run.tagName \in TagNames(repo)
    /\ file.exists /\ newRelease # EmptyText

\* C27 witness: CreateTag failed for a tag name that exists, in a repository
\* whose changelog an earlier run wrote
C27_WitnessExists ==
    /\ pc = "returned" /\ run.stage = "tag"
    /\ run.tagName \in TagNames(repo)
    /\ file.exists

\* C27 witness: CreateTag failed for a name that does not exist
C27_WitnessCreateFails ==
    /\ pc = "returned" /\ run.stage = "tag"
    /\ run.tagName \notin TagNames(repo)

\* a configured keyword stands on a line of the message after the subject line
KeywordAfterSubject(c, message) ==
    LET lines == Split(TrimSpace(message), "\n")
    IN  \E i \in 2..Len(lines), k \in 1..Len(c.BreakingChangeKeywords) :
           Occurs(lines[i], c.BreakingChangeKeywords[k])

\* C28: a commit whose message holds a configured keyword on a line after
\* the subject line, with or without a blank line between, is classified as
\* breaking by the run that reads it, and the bump of that run is Major
C28_BodyKeywordIsBreaking ==
    (GotCommits /\ run.stage # "no commits") =>
        \A k \in 1..Len(gitCommits) :
           KeywordAfterSubject(cfg, CommitObject(repo, gitCommits[k].Hash).Message) =>
              /\ commits[k].IsBreakingChange
              /\ bumpType = Major

====
